---- MODULE Spec2Model ----
(***************************************************************************)
(* Model of the batch renamer: the folder on disk, the undo history kept   *)
(* by UndoManager (undo_manager.py), FileManager.rename_file and           *)
(* validate_file_name (file_manager.py) and RenamerWindow.apply_changes    *)
(* (renamer_gui.py).                                                       *)
(*                                                                         *)
(* File names are sequences of one-character strings, so that the name     *)
(* checks of validate_file_name are computed and not assumed.  A file is   *)
(* a name bound to a content number (0: no file under that name).          *)
(*                                                                         *)
(* The rules engine (rules_engine.py) is modelled as operators on such     *)
(* names, with str.replace, re.sub, os.path.splitext and zfill computed    *)
(* character by character; a call that raises is a result of its own.      *)
(* The preview is modelled as the GUI thread of RenamerWindow and the      *)
(* PreviewWorker threads (renamer_gui.py), one action per handler and per  *)
(* step of run between two reads of the flag, with the signals queued to   *)
(* the GUI thread; the EXIF branch of run uses generate_filename_from_exif *)
(* and clean_for_filename (exif_processor.py).                             *)
(*                                                                         *)
(* Spec: the folder with apply and undo.  SpecHistory: the UndoManager     *)
(* called directly.  SpecRules: the rules engine called directly.          *)
(* SpecPreview: previews with user actions in between.  SpecSupersede:     *)
(* previews superseding one another.                                       *)
(***************************************************************************)
EXTENDS Integers, Sequences, FiniteSets, TLC

VARIABLES
    fs,           \* the folder: name -> content of the file (0 = absent)
    platform,     \* "posix" or "nt": decides what os.rename does on an existing target
    operations,   \* UndoManager.operations
    clock,        \* datetime.now(), as a counter
    history_file, \* the persisted history file: whether it exists, is readable JSON, its records
    backup_folder,\* ".renamer_backups": whether it exists and the backup ids in it
    keep_original_box, \* the "keep a copy of the original files" box of the window
    ntoggle,      \* number of times the box was switched so far (bounded)
    locked,       \* names whose file the OS refuses to rename or read (in use, no permission)
    gone,         \* names deleted from outside since the file table was loaded
    call,         \* the last handler that ran, its inputs, its result and the state before it
    napply,       \* number of apply_changes calls made so far (bounded)
    ncalls,       \* number of UndoManager calls made so far (bounded)
    nenv,         \* number of outside changes so far (bounded)
    engine,       \* the last RulesEngine call: its inputs and what it returned
    exif_call,    \* the last EXIFProcessor call: its inputs and what it returned
    current_files,\* RenamerWindow.current_files
    ui,           \* the rule widgets of the window, as collect_rules reads them
    preview_btn,  \* whether the preview button is enabled
    worker,       \* RenamerWindow.worker: 0 (None) or the number of a PreviewWorker
    workers,      \* the PreviewWorker objects created so far, each with its thread's position
    gui,          \* the GUI thread: idle in the event loop, or inside preview_changes
    queue,        \* signals emitted by worker threads and not yet delivered to the GUI thread
    preview_results, \* RenamerWindow.preview_results
    progress_bar, \* the value of the progress bar
    emitted,      \* per worker: what its run has emitted so far, and whether stop() had been called by then
    nuser         \* number of user actions on the window so far (bounded)

\* the folder, the undo history and the apply/undo handlers
folder_vars == <<fs, platform, operations, clock, history_file, backup_folder,
                 keep_original_box, ntoggle, locked, gone, call, napply, ncalls, nenv>>

\* the rules engine and the EXIF processor called directly
rules_vars == <<engine, exif_call>>

\* the preview: the window's file list and rule widgets, the worker threads
\* and the signals between them
preview_vars == <<current_files, ui, preview_btn, worker, workers, gui, queue,
                  preview_results, progress_bar, emitted, nuser>>

vars == <<folder_vars, rules_vars, preview_vars>>

---------------------------------------------------------------------------
(* Bounds of the model *)

MaxChanges == 2      \* rows of the file table / pairs of one operation
MaxContent == 2      \* distinct file contents
MaxApply == 1        \* apply_changes calls in one behaviour
MaxUndo == 1         \* undo_last_operation calls in one behaviour of Spec
MaxHistoryCalls == 4 \* UndoManager calls in one behaviour of SpecHistory
MaxEnv == 1          \* outside changes in one behaviour
MaxToggle == 1       \* switches of the keep-original box in one behaviour
MaxOperations == 2   \* UndoManager(max_operations): the cap of the history
MaxIndex == 1        \* positions 0..MaxIndex handed to generate_new_name
MaxStart == 1        \* start numbers 1..MaxStart of the numbering group
MaxDigits == 2       \* digit counts 1..MaxDigits of the numbering group
MaxFiles == 2        \* length of the file lists handed to a batch
MaxWorkers == 2      \* PreviewWorker objects created in one behaviour of the preview
MaxRuns == 3         \* PreviewWorker objects created in one behaviour of superseding runs
MaxUser == 1         \* changes of the widgets or the file list in one behaviour of the preview

(* Program constants *)

MaxNameLen == 255

---------------------------------------------------------------------------
(* Names *)

BackupExt == <<".", "b", "a", "c", "k", "u", "p">>

\* names the file table and the preview can hold
Names == { <<"a">>, <<"b">>, <<"c">>, <<"d">>, <<"?">> }

\* old_path + '.backup' of rename_file
BackupName(n) == n \o BackupExt

AllNames == Names \cup { BackupName(n) : n \in Names }

Folder == "folder"

Range(s) == { s[i] : i \in 1..Len(s) }

---------------------------------------------------------------------------
(* Strings *)

LowerLetters == <<"a","b","c","d","e","f","g","h","i","j","k","l","m",
                  "n","o","p","q","r","s","t","u","v","w","x","y","z">>
UpperLetters == <<"A","B","C","D","E","F","G","H","I","J","K","L","M",
                  "N","O","P","Q","R","S","T","U","V","W","X","Y","Z">>

\* str.upper() on one character
UpperChar(c) ==
    IF \E i \in 1..26 : LowerLetters[i] = c
    THEN UpperLetters[CHOOSE i \in 1..26 : LowerLetters[i] = c]
    ELSE c

\* str.upper()
Upper(s) == [i \in 1..Len(s) |-> UpperChar(s[i])]

\* str.rfind(c), 1-based, 0 when c does not occur
RFind(s, c) ==
    IF \E i \in 1..Len(s) : s[i] = c
    THEN CHOOSE i \in 1..Len(s) : s[i] = c /\ \A j \in (i+1)..Len(s) : s[j] # c
    ELSE 0

\* os.path.splitext: the extension starts at the last dot, unless only dots
\* precede it in the last path component
SplitExt(p) ==
    LET sepIndex == RFind(p, "/")
        dotIndex == RFind(p, ".")
    IN  IF dotIndex > sepIndex
           /\ \E k \in (sepIndex+1)..(dotIndex-1) : p[k] # "."
        THEN <<SubSeq(p, 1, dotIndex - 1), SubSeq(p, dotIndex, Len(p))>>
        ELSE <<p, <<>>>>

WhiteSpace == {" ", "\t", "\n", "\r"}

\* file_name.strip() == ""
IsBlank(s) == \A i \in 1..Len(s) : s[i] \in WhiteSpace

---------------------------------------------------------------------------
(* FileManager.validate_file_name *)

forbidden_chars == {"<", ">", ":", "\"", "/", "\\", "|", "?", "*"}

reserved_names ==
    { <<"C","O","N">>, <<"P","R","N">>, <<"A","U","X">>, <<"N","U","L">> }
    \cup { <<"C","O","M">> \o <<d>> : d \in {"1","2","3","4","5","6","7","8","9"} }
    \cup { <<"L","P","T">> \o <<d>> : d \in {"1","2","3","4","5","6","7","8","9"} }

\* the is_valid component of validate_file_name
validate_file_name(file_name) ==
    IF file_name = <<>> \/ IsBlank(file_name) THEN FALSE
    ELSE IF \E i \in 1..Len(file_name) : file_name[i] \in forbidden_chars THEN FALSE
    ELSE IF Len(file_name) > MaxNameLen THEN FALSE
    ELSE IF Upper(SplitExt(file_name)[1]) \in reserved_names THEN FALSE
    ELSE TRUE

---------------------------------------------------------------------------
(* RulesEngine (rules_engine.py): the string operations it uses *)

\* str.lower() on one character
LowerChar(c) ==
    IF \E i \in 1..26 : UpperLetters[i] = c
    THEN LowerLetters[CHOOSE i \in 1..26 : UpperLetters[i] = c]
    ELSE c

\* str.lower()
Lower(s) == [i \in 1..Len(s) |-> LowerChar(s[i])]

\* whether pattern pat matches s at position i.  literal: every character
\* of pat stands for itself (str.replace, re.escape); otherwise pat is a
\* regular expression of literal characters and '.', which matches any
\* character but a newline (any character under re.DOTALL).  fold:
\* re.IGNORECASE.
MatchesAt(s, pat, i, literal, fold, dotall) ==
    /\ i + Len(pat) - 1 <= Len(s)
    /\ \A k \in 1..Len(pat) :
         \/ ~literal /\ pat[k] = "." /\ (dotall \/ s[i + k - 1] # "\n")
         \/ IF fold THEN LowerChar(s[i + k - 1]) = LowerChar(pat[k])
                    ELSE s[i + k - 1] = pat[k]

\* str.replace / Pattern.sub from position i on: the matches are taken from
\* left to right and do not overlap; count is the number of replacements
\* still allowed (-1: all of them)
RECURSIVE Substitute(_, _, _, _, _, _, _, _)
Substitute(s, pat, repl, i, count, literal, fold, dotall) ==
    IF i > Len(s) THEN <<>>
    ELSE IF count # 0 /\ MatchesAt(s, pat, i, literal, fold, dotall)
    THEN repl \o Substitute(s, pat, repl, i + Len(pat),
                            IF count > 0 THEN count - 1 ELSE count,
                            literal, fold, dotall)
    ELSE <<s[i]>> \o Substitute(s, pat, repl, i + 1, count, literal, fold, dotall)

GroupDigits == {"1", "2", "3", "4", "5", "6", "7", "8", "9"}

\* the escapes of a replacement template that stand for a control character
ControlEscapes == {"a", "b", "f", "n", "r", "t", "v"}

\* the replacement template of Pattern.sub, read from position i on: a
\* backslash starts an escape; a doubled backslash is one backslash, a
\* backslash before a digit refers to a group (the patterns here have none),
\* before an ASCII letter it must be a known escape, at the end it is an
\* error.  Templates with a control escape, \0 or \g are not among the
\* inputs.  Result: whether the template is accepted, and its text.
RECURSIVE ExpandTemplate(_, _)
ExpandTemplate(t, i) ==
    IF i > Len(t) THEN [ok |-> TRUE, text |-> <<>>]
    ELSE IF t[i] # "\\"
    THEN LET r == ExpandTemplate(t, i + 1)
         IN  [ok |-> r.ok, text |-> <<t[i]>> \o r.text]
    ELSE IF i = Len(t) THEN [ok |-> FALSE, text |-> <<>>]
    ELSE IF t[i + 1] \in GroupDigits THEN [ok |-> FALSE, text |-> <<>>]
    ELSE IF t[i + 1] \in (Range(LowerLetters) \cup Range(UpperLetters)) \ ControlEscapes
    THEN [ok |-> FALSE, text |-> <<>>]
    ELSE LET r == ExpandTemplate(t, i + 2)
         IN  [ok |-> r.ok,
              text |-> (IF t[i + 1] = "\\" THEN <<"\\">> ELSE <<"\\", t[i + 1]>>) \o r.text]

\* re.compile on the patterns of the model (literal characters, '.', and
\* '('): an opening parenthesis that is never closed is an error
RegexCompiles(pattern) == \A k \in 1..Len(pattern) : pattern[k] # "("

DigitChars == <<"0", "1", "2", "3", "4", "5", "6", "7", "8", "9">>

\* str(n) for n >= 0
RECURSIVE Str(_)
Str(n) == IF n < 10 THEN <<DigitChars[n + 1]>>
          ELSE Str(n \div 10) \o <<DigitChars[(n % 10) + 1]>>

\* str.zfill(width) on a string without sign
RECURSIVE ZFill(_, _)
ZFill(s, width) == IF Len(s) >= width THEN s ELSE ZFill(<<"0">> \o s, width)

\* result.replace(' ', '')
RemoveSpaces(s) == Substitute(s, <<" ">>, <<>>, 1, -1, TRUE, FALSE, FALSE)

\* name, ext = os.path.splitext(result); result = name + ext.lower()
LowercaseExt(s) == SplitExt(s)[1] \o Lower(SplitExt(s)[2])

---------------------------------------------------------------------------
(* RulesEngine: the rules *)

\* the values rules.get falls back to
DefaultRules ==
    [enable_replace |-> FALSE, replace_from |-> <<>>, replace_to |-> <<>>,
     case_sensitive |-> FALSE, replace_all |-> TRUE,
     enable_regex |-> FALSE, regex_pattern |-> <<>>, regex_replacement |-> <<>>,
     regex_ignore_case |-> FALSE, regex_dotall |-> FALSE,
     enable_prefix_suffix |-> FALSE, prefix |-> <<>>, suffix |-> <<>>,
     suffix_before_ext |-> TRUE,
     enable_numbering |-> FALSE, start_number |-> 1, digits_count |-> 3,
     number_separator |-> <<"_">>, number_position |-> "suffix",
     lowercase_ext |-> TRUE, remove_spaces |-> FALSE]

\* a step's result: the name, and whether the step raised
Returned(name) == [name |-> name, raised |-> FALSE]
Raised(name) == [name |-> name, raised |-> TRUE]

\* RulesEngine.apply_text_replace
apply_text_replace(file_name, rules) ==
    IF ~rules.enable_replace THEN Returned(file_name)
    ELSE IF rules.replace_from = <<>> THEN Returned(file_name)
    ELSE IF rules.case_sensitive
    THEN Returned(Substitute(file_name, rules.replace_from, rules.replace_to, 1,
                             IF rules.replace_all THEN -1 ELSE 1, TRUE, FALSE, FALSE))
    ELSE LET t == ExpandTemplate(rules.replace_to, 1)
         IN  IF ~t.ok THEN Raised(file_name)
             ELSE Returned(Substitute(file_name, rules.replace_from, t.text, 1,
                                      IF rules.replace_all THEN -1 ELSE 1,
                                      TRUE, TRUE, FALSE))

\* RulesEngine.apply_prefix_suffix
apply_prefix_suffix(file_name, rules) ==
    IF ~rules.enable_prefix_suffix THEN file_name
    ELSE LET r1 == IF rules.prefix # <<>> THEN rules.prefix \o file_name ELSE file_name
         IN  IF rules.suffix = <<>> THEN r1
             ELSE IF rules.suffix_before_ext
             THEN SplitExt(r1)[1] \o rules.suffix \o SplitExt(r1)[2]
             ELSE r1 \o rules.suffix

\* RulesEngine.apply_numbering
apply_numbering(file_name, index, rules) ==
    IF ~rules.enable_numbering THEN file_name
    ELSE LET number == ZFill(Str(rules.start_number + index), rules.digits_count)
         IN  IF rules.number_position = "prefix"
             THEN number \o rules.number_separator \o file_name
             ELSE SplitExt(file_name)[1] \o rules.number_separator \o number
                  \o SplitExt(file_name)[2]

\* RulesEngine.apply_regex: an error of re.sub is caught and the name is
\* returned as it was
apply_regex(file_name, rules) ==
    IF ~rules.enable_regex THEN file_name
    ELSE IF rules.regex_pattern = <<>> THEN file_name
    ELSE LET t == ExpandTemplate(rules.regex_replacement, 1)
         IN  IF ~RegexCompiles(rules.regex_pattern) \/ ~t.ok THEN file_name
             ELSE Substitute(file_name, rules.regex_pattern, t.text, 1, -1,
                             FALSE, rules.regex_ignore_case, rules.regex_dotall)

\* generate_new_name removing the spaces at the end instead of first
generate_new_name_spaces_last(file_name, index, rules) ==
    LET r2 == apply_text_replace(file_name, rules)
        r3 == apply_regex(r2.name, rules)
        r4 == apply_prefix_suffix(r3, rules)
        r5 == apply_numbering(r4, index, rules)
        r6 == IF rules.lowercase_ext THEN LowercaseExt(r5) ELSE r5
        r7 == IF rules.remove_spaces THEN RemoveSpaces(r6) ELSE r6
    IN  IF r2.raised THEN Raised(file_name) ELSE Returned(r7)

\* generate_new_name appending the lowered extension to the whole name
generate_new_name_ext_appended(file_name, index, rules) ==
    LET r1 == IF rules.remove_spaces THEN RemoveSpaces(file_name) ELSE file_name
        r2 == apply_text_replace(r1, rules)
        r3 == apply_regex(r2.name, rules)
        r4 == apply_prefix_suffix(r3, rules)
        r5 == apply_numbering(r4, index, rules)
        r6 == IF rules.lowercase_ext THEN r5 \o Lower(SplitExt(r5)[2]) ELSE r5
    IN  IF r2.raised THEN Raised(file_name) ELSE Returned(r6)

\* RulesEngine.generate_new_name: the steps in the order of the code.  An
\* exception of apply_text_replace is not caught and leaves the function.
generate_new_name(file_name, index, rules) ==
    LET r1 == IF rules.remove_spaces THEN RemoveSpaces(file_name) ELSE file_name
        r2 == apply_text_replace(r1, rules)
        r3 == apply_regex(r2.name, rules)
        r4 == apply_prefix_suffix(r3, rules)
        r5 == apply_numbering(r4, index, rules)
        r6 == IF rules.lowercase_ext THEN LowercaseExt(r5) ELSE r5
    IN  IF r2.raised THEN Raised(file_name) ELSE Returned(r6)

\* the entry stored under the new name instead of the file's name
Put_keyed_by_value(d, k, v) == [x \in DOMAIN d \cup {v} |-> IF x = v THEN k ELSE d[x]]

\* a dict as a function: d with key k set to v
Put(d, k, v) == [x \in DOMAIN d \cup {k} |-> IF x = k THEN v ELSE d[x]]

EmptyDict == [x \in {} |-> <<>>]

\* the loop of batch_process from position i on (1-based here, the index
\* handed to generate_new_name is 0-based); an exception ends the loop
RECURSIVE BatchLoop(_, _, _, _)
BatchLoop(files, rules, i, result) ==
    IF i > Len(files) THEN [result |-> result, raised |-> FALSE]
    ELSE LET g == generate_new_name(files[i], i - 1, rules)
         IN  IF g.raised THEN [result |-> result, raised |-> TRUE]
             ELSE BatchLoop(files, rules, i + 1, Put(result, files[i], g.name))

\* batch_process numbering the files from 1
batch_process_one_based(files, rules) ==
    [result |-> [f \in Range(files) |->
                    generate_new_name(f, CHOOSE i \in 1..Len(files) : files[i] = f, rules).name],
     raised |-> \E i \in 1..Len(files) : generate_new_name(files[i], i, rules).raised]

\* RulesEngine.batch_process
batch_process(files, rules) == BatchLoop(files, rules, 1, EmptyDict)

\* RenamerWindow.collect_rules: the rules dict built from the widgets u
collect_rules(u) ==
    LET is_simple_mode == u.simple_replace_mode
    IN  [enable_replace |-> u.enable_replace,
         replace_from |-> u.replace_from,
         replace_to |-> u.replace_to,
         simple_mode |-> is_simple_mode,
         case_sensitive |-> IF is_simple_mode THEN u.case_sensitive ELSE FALSE,
         replace_all |-> IF is_simple_mode THEN u.replace_all ELSE TRUE,
         enable_regex |-> ~is_simple_mode /\ u.enable_replace,
         regex_pattern |-> IF ~is_simple_mode THEN u.replace_from ELSE <<>>,
         regex_replacement |-> IF ~is_simple_mode THEN u.replace_to ELSE <<>>,
         regex_ignore_case |-> IF ~is_simple_mode THEN u.regex_ignore_case ELSE FALSE,
         regex_dotall |-> IF ~is_simple_mode THEN u.regex_dotall ELSE FALSE,
         enable_prefix_suffix |-> u.enable_prefix_suffix,
         prefix |-> u.prefix_text,
         suffix |-> u.suffix_text,
         suffix_before_ext |-> u.suffix_before_ext,
         enable_numbering |-> u.enable_numbering,
         start_number |-> u.start_number,
         digits_count |-> u.digits_count,
         number_separator |-> u.number_separator,
         number_position |-> IF u.number_prefix THEN "prefix" ELSE "suffix",
         lowercase_ext |-> u.lowercase_ext,
         remove_spaces |-> u.remove_spaces,
         enable_exif |-> u.enable_exif,
         exif_template |-> u.template_input,
         clean_exif_names |-> u.clean_names,
         exif_lowercase |-> u.lowercase,
         exif_replace_spaces |-> u.replace_spaces]

---------------------------------------------------------------------------
(* EXIFProcessor (exif_processor.py): names from a template *)

\* the keys of EXIFProcessor.PLACEHOLDERS, in the order of the dict
PLACEHOLDERS ==
    << <<"{", "d", "a", "t", "e", "}">>,
       <<"{", "t", "i", "m", "e", "}">>,
       <<"{", "d", "a", "t", "e", "t", "i", "m", "e", "}">>,
       <<"{", "c", "a", "m", "e", "r", "a", "}">>,
       <<"{", "m", "a", "k", "e", "}">>,
       <<"{", "l", "e", "n", "s", "}">>,
       <<"{", "f", "o", "c", "a", "l", "}">>,
       <<"{", "a", "p", "e", "r", "t", "u", "r", "e", "}">>,
       <<"{", "s", "h", "u", "t", "t", "e", "r", "}">>,
       <<"{", "i", "s", "o", "}">>,
       <<"{", "w", "i", "d", "t", "h", "}">>,
       <<"{", "h", "e", "i", "g", "h", "t", "}">>,
       <<"{", "o", "r", "i", "e", "n", "t", "a", "t", "i", "o", "n", "}">>,
       <<"{", "a", "r", "t", "i", "s", "t", "}">>,
       <<"{", "c", "o", "p", "y", "r", "i", "g", "h", "t", "}">>,
       <<"{", "s", "o", "f", "t", "w", "a", "r", "e", "}">>,
       <<"{", "m", "o", "d", "e", "l", "}">> >>

\* the characters clean_for_filename deletes, and those \s matches
ForbiddenChars == {"<", ">", ":", "\"", "/", "\\", "|", "?", "*"}
Whitespace == {" ", "\t", "\n", "\r", "\f"}

\* re.sub of every run of characters of the set run by the text to
RECURSIVE CollapseRuns(_, _, _, _)
CollapseRuns(s, i, run, to) ==
    IF i > Len(s) THEN <<>>
    ELSE IF s[i] \in run
    THEN (IF i > 1 /\ s[i - 1] \in run THEN <<>> ELSE to) \o CollapseRuns(s, i + 1, run, to)
    ELSE <<s[i]>> \o CollapseRuns(s, i + 1, run, to)

\* str.strip()
Strip(s) ==
    LET kept == { i \in 1..Len(s) : s[i] \notin Whitespace }
    IN  IF kept = {} THEN <<>>
        ELSE SubSeq(s, CHOOSE i \in kept : \A j \in kept : i <= j,
                       CHOOSE i \in kept : \A j \in kept : i >= j)

\* EXIFProcessor.clean_for_filename on a string
clean_for_filename(text) ==
    LET Allowed(c) == c \notin ForbiddenChars
        cleaned == SelectSeq(text, Allowed)
    IN  Strip(CollapseRuns(cleaned, 1, Whitespace, <<" ">>))

\* dict.get(key, default)
Get(d, key, default) == IF key \in DOMAIN d THEN d[key] ELSE default

\* EXIFProcessor.get_creation_datetime on a tag map: the first of the three
\* date tags that strptime accepts as "%Y:%m:%d %H:%M:%S", given as
\* date_part and time_part; <<>> stands for None.  The dates of the model
\* are of full width and name a day that exists.
get_creation_datetime(exif_data) ==
    LET date_fields == <<"DateTimeOriginal", "DateTimeDigitized", "DateTime">>
        Parses(s) ==
            /\ Len(s) = 19
            /\ \A k \in 1..19 :
                 IF k \in {5, 8, 14, 17} THEN s[k] = ":"
                 ELSE IF k = 11 THEN s[k] = " "
                 ELSE s[k] \in Range(DigitChars)
        good == { k \in 1..3 : /\ date_fields[k] \in DOMAIN exif_data
                               /\ Parses(exif_data[date_fields[k]]) }
    IN  IF good = {} THEN <<>>
        ELSE LET s == exif_data[date_fields[CHOOSE k \in good : \A j \in good : k <= j]]
             IN  << SubSeq(s, 1, 4) \o <<"-">> \o SubSeq(s, 6, 7) \o <<"-">> \o SubSeq(s, 9, 10),
                    SubSeq(s, 12, 13) \o <<"-">> \o SubSeq(s, 15, 16) >>

\* EXIFProcessor.extract_values_for_template on a tag map that is not empty:
\* the pairs (placeholder, text) in the order the dict is filled.  The tag
\* maps of the model hold text tags only (the date tags, Model, Make,
\* LensModel, ISOSpeedRatings, Artist, Copyright, Software), so the numeric
\* placeholders have no value.
extract_values_for_template(exif_data) ==
    LET datetime_info == get_creation_datetime(exif_data)
        camera_model == Get(exif_data, "Model", <<>>)
        make == Get(exif_data, "Make", <<>>)
        lens == Get(exif_data, "LensModel", <<>>)
        Cleaned(tag) == clean_for_filename(Get(exif_data, tag, <<>>))
    IN  (IF datetime_info # <<>>
         THEN << <<PLACEHOLDERS[1], datetime_info[1]>>,
                 <<PLACEHOLDERS[2], datetime_info[2]>>,
                 <<PLACEHOLDERS[3], datetime_info[1] \o <<"_">> \o datetime_info[2]>> >>
         ELSE <<>>)
        \o (IF camera_model # <<>>
            THEN << <<PLACEHOLDERS[4], clean_for_filename(camera_model)>>,
                    <<PLACEHOLDERS[17], clean_for_filename(camera_model)>> >>
            ELSE <<>>)
        \o (IF make # <<>> THEN << <<PLACEHOLDERS[5], clean_for_filename(make)>> >> ELSE <<>>)
        \o (IF lens # <<>> THEN << <<PLACEHOLDERS[6], clean_for_filename(lens)>> >> ELSE <<>>)
        \o << <<PLACEHOLDERS[7], <<>>>>,
              <<PLACEHOLDERS[8], <<>>>>,
              <<PLACEHOLDERS[9], <<>>>>,
              <<PLACEHOLDERS[10], Get(exif_data, "ISOSpeedRatings", <<>>)>>,
              <<PLACEHOLDERS[11], <<>>>>,
              <<PLACEHOLDERS[12], <<>>>>,
              <<PLACEHOLDERS[13], <<>>>>,
              <<PLACEHOLDERS[14], Cleaned("Artist")>>,
              <<PLACEHOLDERS[15], Cleaned("Copyright")>>,
              <<PLACEHOLDERS[16], Cleaned("Software")>> >>

\* what generate_filename_from_exif gets for a file whose tag map is
\* exif_data: whether the map holds anything, and the values for the template
ExifOf(exif_data) ==
    IF DOMAIN exif_data = {} THEN [data |-> FALSE, values |-> <<>>]
    ELSE [data |-> TRUE, values |-> extract_values_for_template(exif_data)]

\* what get_all_exif_data and extract_values_for_template give for a file:
\* data tells whether the file holds EXIF tags, values is the list of the
\* pairs (placeholder, text) in the order extract_values_for_template fills
\* its dict
NoExifData == [data |-> FALSE, values |-> <<>>]

\* the values of a photo with the tags DateTimeOriginal and Model
PhotoExifData ==
    [data |-> TRUE,
     values |-> << <<<<"{", "d", "a", "t", "e", "}">>, <<"2", "0", "2", "4", "-", "0", "1", "-", "0", "2">>>>,
                   <<<<"{", "t", "i", "m", "e", "}">>, <<"0", "3", "-", "0", "4">>>>,
                   <<<<"{", "d", "a", "t", "e", "t", "i", "m", "e", "}">>, <<"2", "0", "2", "4", "-", "0", "1", "-", "0", "2", "_", "0", "3", "-", "0", "4">>>>,
                   <<<<"{", "c", "a", "m", "e", "r", "a", "}">>, <<"C", " ", "1">>>>,
                   <<<<"{", "m", "o", "d", "e", "l", "}">>, <<"C", " ", "1">>>>,
                   <<<<"{", "f", "o", "c", "a", "l", "}">>, <<>>>>,
                   <<<<"{", "a", "p", "e", "r", "t", "u", "r", "e", "}">>, <<>>>>,
                   <<<<"{", "s", "h", "u", "t", "t", "e", "r", "}">>, <<>>>>,
                   <<<<"{", "i", "s", "o", "}">>, <<>>>>,
                   <<<<"{", "w", "i", "d", "t", "h", "}">>, <<>>>>,
                   <<<<"{", "h", "e", "i", "g", "h", "t", "}">>, <<>>>>,
                   <<<<"{", "o", "r", "i", "e", "n", "t", "a", "t", "i", "o", "n", "}">>, <<>>>>,
                   <<<<"{", "a", "r", "t", "i", "s", "t", "}">>, <<>>>>,
                   <<<<"{", "c", "o", "p", "y", "r", "i", "g", "h", "t", "}">>, <<>>>>,
                   <<<<"{", "s", "o", "f", "t", "w", "a", "r", "e", "}">>, <<>>>> >>]

ExifInputs == {NoExifData, PhotoExifData}

\* str.replace(old, new) with old not empty: a string without the first
\* character of old comes back as it is
Replace(s, old, new) ==
    IF \A i \in 1..Len(s) : s[i] # old[1] THEN s
    ELSE Substitute(s, old, new, 1, -1, TRUE, FALSE, FALSE)

\* the first loop of generate_filename_from_exif: every placeholder that has
\* a value is replaced by it, from pair k on
RECURSIVE FillTemplate(_, _, _)
FillTemplate(result, values, k) ==
    IF k > Len(values) THEN result
    ELSE LET filled == IF values[k][2] # <<>>
                       THEN Replace(result, values[k][1], values[k][2])
                       ELSE result
         IN  IF Len(filled) = 0 THEN filled ELSE FillTemplate(filled, values, k + 1)

\* the second loop: the placeholders still there are deleted, from k on
RECURSIVE DropPlaceholders(_, _)
DropPlaceholders(result, k) ==
    IF k > Len(PLACEHOLDERS) THEN result
    ELSE LET dropped == Replace(result, PLACEHOLDERS[k], <<>>)
         IN  IF Len(dropped) = 0 THEN dropped ELSE DropPlaceholders(dropped, k + 1)

\* re.sub(r'^_|_$', '', result): templates and values hold no line break
TrimUnderscores(s) ==
    LET a == IF s # <<>> /\ s[1] = "_" THEN Tail(s) ELSE s
    IN  IF a # <<>> /\ a[Len(a)] = "_" THEN SubSeq(a, 1, Len(a) - 1) ELSE a

\* EXIFProcessor.generate_filename_from_exif, exif being what the file at
\* file_path holds
generate_filename_from_exif(file_name, exif, template) ==
    IF ~exif.data THEN file_name
    ELSE LET result == TrimUnderscores(
                           CollapseRuns(DropPlaceholders(FillTemplate(template, exif.values, 1), 1),
                                        1, {"_"}, <<"_">>))
         IN  IF result = <<>> \/ Range(result) \subseteq {"_", "-"} THEN file_name
             ELSE result \o SplitExt(file_name)[2]

\* placeholder in template
Contains(s, sub) ==
    \E i \in 1..(Len(s) - Len(sub) + 1) : SubSeq(s, i, i + Len(sub) - 1) = sub

\* str.count of one character
CountChar(s, c) == Cardinality({ i \in 1..Len(s) : s[i] = c })

\* EXIFProcessor.validate_template: is_valid, and which message it gives
validate_template(template) ==
    IF template = <<>> THEN [valid |-> FALSE, message |-> "empty"]
    ELSE LET has_valid_placeholder ==
                 \E k \in 1..Len(PLACEHOLDERS) : Contains(template, PLACEHOLDERS[k])
         IN  IF ~has_valid_placeholder /\ "{" \in Range(template)
             THEN IF CountChar(template, "{") # CountChar(template, "}")
                  THEN [valid |-> FALSE, message |-> "unbalanced"]
                  ELSE [valid |-> FALSE, message |-> "unknown"]
             ELSE [valid |-> TRUE, message |-> "OK"]

\* the extensions PreviewWorker.run takes for images
image_extensions ==
    { <<".", "j", "p", "g">>,
      <<".", "j", "p", "e", "g">>,
      <<".", "p", "n", "g">>,
      <<".", "t", "i", "f", "f">>,
      <<".", "t", "i", "f">>,
      <<".", "b", "m", "p">>,
      <<".", "g", "i", "f">>,
      <<".", "w", "e", "b", "p">>,
      <<".", "h", "e", "i", "c">>,
      <<".", "n", "e", "f">>,
      <<".", "c", "r", "2">>,
      <<".", "a", "r", "w">>,
      <<".", "d", "n", "g">> }

\* PreviewWorker.run, the EXIF branch for an image that exists (lines 80-96):
\* the name from the template, then the options of the EXIF group
run_exif_name(name, rules, exif) ==
    LET e0 == generate_filename_from_exif(name, exif, rules.exif_template)
        e1 == IF rules.clean_exif_names THEN clean_for_filename(e0) ELSE e0
        e2 == IF rules.exif_lowercase
              THEN Lower(SplitExt(e1)[1]) \o SplitExt(e1)[2] ELSE e1
    IN  IF rules.exif_replace_spaces THEN Replace(e2, <<" ">>, <<"_">>) ELSE e2

\* the name of one file with the EXIF branch taken without asking whether
\* the file exists
run_new_name_unchecked(file_name, i, rules, exists, exif) ==
    LET g == generate_new_name(file_name, i, rules)
    IN  IF g.raised THEN g
        ELSE IF rules.enable_exif
                /\ Lower(SplitExt(file_name)[2]) \in image_extensions
        THEN Returned(run_exif_name(g.name, rules, exif))
        ELSE g

\* PreviewWorker.run, the name of one file (lines 65-105): the name of the
\* rules engine, and for an image that exists, with EXIF switched on, the
\* name of the EXIF branch.  exists: os.path.exists(file_path).
run_new_name(file_name, i, rules, exists, exif) ==
    LET g == generate_new_name(file_name, i, rules)
    IN  IF g.raised THEN g
        ELSE IF rules.enable_exif
                /\ Lower(SplitExt(file_name)[2]) \in image_extensions
                /\ exists
        THEN Returned(run_exif_name(g.name, rules, exif))
        ELSE g

---------------------------------------------------------------------------
(* The file system calls the code makes *)

\* os.path.exists(os.path.join(folder, name))
Exists(f, name) == name \in DOMAIN f /\ f[name] # 0

\* os.rename(src, dst).  Raises when src is missing or the OS refuses to
\* move it; on an existing target it raises on Windows and replaces the
\* target on POSIX, unless the OS refuses to touch the target.  Result: the
\* folder and whether it raised.
OsRename(f, src, dst) ==
    IF src \in locked \/ ~Exists(f, src) THEN [fs |-> f, raised |-> TRUE]
    ELSE IF src = dst THEN [fs |-> f, raised |-> FALSE]
    ELSE IF Exists(f, dst) /\ (platform = "nt" \/ dst \in locked)
    THEN [fs |-> f, raised |-> TRUE]
    ELSE [fs |-> [f EXCEPT ![dst] = f[src], ![src] = 0], raised |-> FALSE]

\* shutil.copy2(src, dst): replaces an existing target
Copy2(f, src, dst) ==
    IF src \in locked \/ ~Exists(f, src) THEN [fs |-> f, raised |-> TRUE]
    ELSE IF src = dst \/ (Exists(f, dst) /\ dst \in locked)
    THEN [fs |-> f, raised |-> TRUE]
    ELSE [fs |-> [f EXCEPT ![dst] = f[src]], raised |-> FALSE]

---------------------------------------------------------------------------
(* RenameOperation and its dictionary form *)

\* isoformat() leaving out the fraction of the second
IsoFormat_whole_seconds(t) == <<"T", t \div 2>>

\* datetime.isoformat(): the text form of a timestamp, the seconds and, unless
\* it is zero, the fraction of the second.  The clock of the model ticks
\* twice a second, so that timestamps of both forms occur.
IsoFormat(t) ==
    IF t % 2 = 0 THEN <<"T", t \div 2>> ELSE <<"T", t \div 2, t % 2>>

\* whether datetime.fromisoformat accepts the text
IsIso(x) == Len(x) \in {2, 3} /\ x[1] = "T"

\* datetime.fromisoformat(): a text without fraction is a whole second
FromIsoFormat(x) == x[2] * 2 + (IF Len(x) = 3 THEN x[3] ELSE 0)

\* RenameOperation(timestamp, folder_path, changes, operation_id)
RenameOperation(t, folder, changes, id) ==
    [timestamp |-> t, folder_path |-> folder, changes |-> changes, operation_id |-> id]

\* RenameOperation.to_dict
to_dict(op) == [op EXCEPT !.timestamp = IsoFormat(op.timestamp)]

\* RenameOperation.from_dict, defined when the timestamp text parses
from_dict(data) == [data EXCEPT !.timestamp = FromIsoFormat(data.timestamp)]

---------------------------------------------------------------------------
(* UndoManager *)

\* UndoManager.create_operation_id
create_operation_id(now) == now

\* add_operation evicting the newest entry instead of the oldest
add_operation_evict_newest(ops, folder_path, changes, now) ==
    IF Len(ops) >= MaxOperations /\ ops = <<>>
    THEN [operations |-> ops, raised |-> TRUE]
    ELSE LET kept == IF Len(ops) >= MaxOperations
                     THEN SubSeq(ops, 1, Len(ops) - 1) ELSE ops
             operation == RenameOperation(now, folder_path, changes,
                                          create_operation_id(now))
         IN  [operations |-> Append(kept, operation), raised |-> FALSE]

\* UndoManager.add_operation: the new history, or raised when pop(0) hits an
\* empty list
add_operation(ops, folder_path, changes, now) ==
    IF Len(ops) >= MaxOperations /\ ops = <<>>
    THEN [operations |-> ops, raised |-> TRUE]
    ELSE LET kept == IF Len(ops) >= MaxOperations THEN Tail(ops) ELSE ops
             operation == RenameOperation(now, folder_path, changes,
                                          create_operation_id(now))
         IN  [operations |-> Append(kept, operation), raised |-> FALSE]

\* UndoManager.get_last_operation (<<>> stands for None)
get_last_operation(ops) == IF ops # <<>> THEN <<ops[Len(ops)]>> ELSE <<>>

\* the for loop of undo_last_operation from pair i on
RECURSIVE UndoLoop(_, _, _, _, _)
UndoLoop(f, changes, i, success_count, error_count) ==
    IF i > Len(changes)
    THEN [fs |-> f, success_count |-> success_count,
          error_count |-> error_count, raised |-> FALSE]
    ELSE LET old_name == changes[i].old
             new_name == changes[i].new
         IN  IF Exists(f, new_name)
             THEN LET r == OsRename(f, new_name, old_name)
                  IN  IF r.raised
                      THEN [fs |-> f, success_count |-> success_count,
                            error_count |-> error_count, raised |-> TRUE]
                      ELSE UndoLoop(r.fs, changes, i + 1, success_count + 1,
                                    error_count)
             ELSE UndoLoop(f, changes, i + 1, success_count, error_count + 1)

\* undo_last_operation reporting success only when no pair was missing, and
\* keeping the operation otherwise
undo_last_operation_all_or_nothing(ops, f) ==
    IF ops = <<>>
    THEN [operations |-> ops, fs |-> f, ret |-> FALSE, raised |-> FALSE,
          success_count |-> 0, error_count |-> 0]
    ELSE LET operation == ops[Len(ops)]
             popped == SubSeq(ops, 1, Len(ops) - 1)
             r == UndoLoop(f, operation.changes, 1, 0, 0)
         IN  IF r.raised \/ r.error_count > 0
             THEN [operations |-> Append(popped, operation), fs |-> r.fs,
                   ret |-> FALSE, raised |-> r.raised,
                   success_count |-> r.success_count, error_count |-> r.error_count]
             ELSE [operations |-> popped, fs |-> r.fs,
                   ret |-> r.success_count > 0, raised |-> FALSE,
                   success_count |-> r.success_count, error_count |-> r.error_count]

\* undo_last_operation whose exception handler does not put the operation back
undo_last_operation_no_restore(ops, f) ==
    IF ops = <<>>
    THEN [operations |-> ops, fs |-> f, ret |-> FALSE, raised |-> FALSE,
          success_count |-> 0, error_count |-> 0]
    ELSE LET operation == ops[Len(ops)]
             popped == SubSeq(ops, 1, Len(ops) - 1)
             r == UndoLoop(f, operation.changes, 1, 0, 0)
         IN  [operations |-> popped, fs |-> r.fs,
              ret |-> ~r.raised /\ r.success_count > 0, raised |-> r.raised,
              success_count |-> r.success_count, error_count |-> r.error_count]

\* UndoManager.undo_last_operation: the history, the folder, the value
\* returned and what the loop counted
undo_last_operation(ops, f) ==
    IF ops = <<>>
    THEN [operations |-> ops, fs |-> f, ret |-> FALSE, raised |-> FALSE,
          success_count |-> 0, error_count |-> 0]
    ELSE LET operation == ops[Len(ops)]
             popped == SubSeq(ops, 1, Len(ops) - 1)
             r == UndoLoop(f, operation.changes, 1, 0, 0)
         IN  IF r.raised
             THEN [operations |-> Append(popped, operation), fs |-> r.fs,
                   ret |-> FALSE, raised |-> TRUE,
                   success_count |-> r.success_count, error_count |-> r.error_count]
             ELSE [operations |-> popped, fs |-> r.fs,
                   ret |-> r.success_count > 0, raised |-> FALSE,
                   success_count |-> r.success_count, error_count |-> r.error_count]

\* UndoManager.create_backup.  A makedirs fails when the backup folder
\* cannot be written or the backup id is taken; a copy fails when its file
\* is missing or unreadable.  ret is <<>> for None and <<backup_id>> for the
\* backup path.  The copies land outside the folder and are read by nothing
\* modelled here.
create_backup(bf, f, files, now) ==
    IF ~bf.exists /\ ~bf.writable
    THEN [backup_folder |-> bf, ret |-> <<>>]
    ELSE LET backup_id == create_operation_id(now)
         IN  IF ~bf.writable \/ backup_id \in bf.ids
             THEN [backup_folder |-> [bf EXCEPT !.exists = TRUE], ret |-> <<>>]
             ELSE LET made == [bf EXCEPT !.exists = TRUE,
                                         !.ids = bf.ids \cup {backup_id}]
                  IN  IF \E k \in 1..Len(files) :
                            files[k] \in locked \/ ~Exists(f, files[k])
                      THEN [backup_folder |-> made, ret |-> <<>>]
                      ELSE [backup_folder |-> made, ret |-> <<backup_id>>]

\* UndoManager.save_history.  sfault: 1 the file cannot be opened for
\* writing, 2 the dump fails after the file was truncated, 0 none.
save_history(ops, hf, sfault) ==
    IF sfault = 1 THEN [history_file |-> hf, ret |-> FALSE]
    ELSE IF sfault = 2
    THEN [history_file |-> [exists |-> TRUE, json |-> FALSE, data |-> <<>>],
          ret |-> FALSE]
    ELSE [history_file |-> [exists |-> TRUE, json |-> TRUE,
                            data |-> [i \in 1..Len(ops) |-> to_dict(ops[i])]],
          ret |-> TRUE]

\* load_history filling the history record by record, so that the records
\* before one that cannot be converted stay loaded
load_history_record_by_record(ops, hf) ==
    IF ~hf.exists THEN [operations |-> ops, ret |-> FALSE]
    ELSE IF ~hf.json THEN [operations |-> ops, ret |-> FALSE]
    ELSE IF \E i \in 1..Len(hf.data) : ~IsIso(hf.data[i].timestamp)
    THEN LET bad == CHOOSE i \in 1..Len(hf.data) :
                        /\ ~IsIso(hf.data[i].timestamp)
                        /\ \A j \in 1..(i - 1) : IsIso(hf.data[j].timestamp)
         IN  [operations |-> [i \in 1..(bad - 1) |-> from_dict(hf.data[i])],
              ret |-> FALSE]
    ELSE [operations |-> [i \in 1..Len(hf.data) |-> from_dict(hf.data[i])],
          ret |-> TRUE]

\* UndoManager.load_history
load_history(ops, hf) ==
    IF ~hf.exists THEN [operations |-> ops, ret |-> FALSE]
    ELSE IF ~hf.json THEN [operations |-> ops, ret |-> FALSE]
    ELSE IF \E i \in 1..Len(hf.data) : ~IsIso(hf.data[i].timestamp)
    THEN [operations |-> ops, ret |-> FALSE]
    ELSE [operations |-> [i \in 1..Len(hf.data) |-> from_dict(hf.data[i])],
          ret |-> TRUE]

\* UndoManager.clear_history; cfault: shutil.rmtree fails
clear_history(bf, cfault) ==
    [operations |-> <<>>,
     backup_folder |-> IF bf.exists /\ ~cfault
                       THEN [bf EXCEPT !.exists = FALSE, !.ids = {}] ELSE bf]

---------------------------------------------------------------------------
(* FileManager.rename_file *)

\* rename_file(old_path, new_name, keep_original)
rename_file(f, old, new_name, keep_original) ==
    IF Exists(f, new_name) /\ new_name # old THEN [fs |-> f, ret |-> FALSE]
    ELSE LET c == IF keep_original
                  THEN Copy2(f, old, BackupName(old))
                  ELSE [fs |-> f, raised |-> FALSE]
         IN  IF c.raised THEN [fs |-> f, ret |-> FALSE]
             ELSE LET r == OsRename(c.fs, old, new_name)
                  IN  IF r.raised THEN [fs |-> c.fs, ret |-> FALSE]
                      ELSE [fs |-> r.fs, ret |-> TRUE]

---------------------------------------------------------------------------
(* RenamerWindow.apply_changes *)

\* the changes list built from the rows of the file table and the preview
\* results: one {old, new} per row whose new name differs
RECURSIVE CollectChanges(_, _, _)
CollectChanges(table, results, i) ==
    IF i > Len(table) THEN <<>>
    ELSE LET current_name == table[i]
             new_name == IF current_name \in DOMAIN results
                         THEN results[current_name] ELSE current_name
             rest == CollectChanges(table, results, i + 1)
         IN  IF current_name # new_name
             THEN <<[old |-> current_name, new |-> new_name]>> \o rest
             ELSE rest

\* the rename loop giving up the rest of the batch at the first collision
RECURSIVE ApplyLoop_abort_on_collision(_, _, _, _)
ApplyLoop_abort_on_collision(f, changes, i, keep_original) ==
    IF i > Len(changes) THEN [fs |-> f, outcome |-> <<>>]
    ELSE LET old == changes[i].old
             new == changes[i].new
         IN  IF ~validate_file_name(new)
             THEN LET rest == ApplyLoop_abort_on_collision(f, changes, i + 1, keep_original)
                  IN  [fs |-> rest.fs, outcome |-> <<"invalid">> \o rest.outcome]
             ELSE IF Exists(f, new) /\ new # old
             THEN [fs |-> f,
                   outcome |-> [k \in 1..(Len(changes) - i + 1) |->
                                  IF k = 1 THEN "exists" ELSE "failed"]]
             ELSE LET r == rename_file(f, old, new, keep_original)
                      rest == ApplyLoop_abort_on_collision(r.fs, changes, i + 1, keep_original)
                  IN  [fs |-> rest.fs,
                       outcome |-> <<IF r.ret THEN "ok" ELSE "failed">> \o rest.outcome]

\* the rename loop of apply_changes from change i on: the folder and, per
\* change, "invalid" (name rejected), "exists" (new name taken), "ok" or
\* "failed" (rename_file returned False)
RECURSIVE ApplyLoop(_, _, _, _)
ApplyLoop(f, changes, i, keep_original) ==
    IF i > Len(changes) THEN [fs |-> f, outcome |-> <<>>]
    ELSE LET old == changes[i].old
             new == changes[i].new
         IN  IF ~validate_file_name(new)
             THEN LET rest == ApplyLoop(f, changes, i + 1, keep_original)
                  IN  [fs |-> rest.fs, outcome |-> <<"invalid">> \o rest.outcome]
             ELSE IF Exists(f, new) /\ new # old
             THEN LET rest == ApplyLoop(f, changes, i + 1, keep_original)
                  IN  [fs |-> rest.fs, outcome |-> <<"exists">> \o rest.outcome]
             ELSE LET r == rename_file(f, old, new, keep_original)
                      rest == ApplyLoop(r.fs, changes, i + 1, keep_original)
                  IN  [fs |-> rest.fs,
                       outcome |-> <<IF r.ret THEN "ok" ELSE "failed">> \o rest.outcome]

\* number of entries of outcome equal to v
Count(outcome, v) == Cardinality({ i \in 1..Len(outcome) : outcome[i] = v })

\* the changes apply_changes records: those whose new name exists afterwards
RECURSIVE SuccessfulChanges(_, _, _)
SuccessfulChanges(f, changes_copy, i) ==
    IF i > Len(changes_copy) THEN <<>>
    ELSE IF Exists(f, changes_copy[i].new)
    THEN <<changes_copy[i]>> \o SuccessfulChanges(f, changes_copy, i + 1)
    ELSE SuccessfulChanges(f, changes_copy, i + 1)

\* apply_changes recording an operation whenever a new name exists
\* afterwards, without looking at success_count
apply_changes_record_always(f, ops, bf, now, changes, keep_original) ==
    LET changed_files == [i \in 1..Len(changes) |-> changes[i].old]
        b == IF keep_original
             THEN create_backup(bf, f, changed_files, now)
             ELSE [backup_folder |-> bf, ret |-> <<>>]
        l == ApplyLoop(f, changes, 1, keep_original)
        success_count == Count(l.outcome, "ok")
        error_count == Len(changes) - success_count
        successful_changes == SuccessfulChanges(l.fs, changes, 1)
        added == successful_changes # <<>>
        a == IF added
             THEN add_operation(ops, Folder, successful_changes, now)
             ELSE [operations |-> ops, raised |-> FALSE]
    IN  [fs |-> l.fs, operations |-> a.operations, backup_folder |-> b.backup_folder,
         backup_path |-> b.ret, outcome |-> l.outcome,
         success_count |-> success_count, error_count |-> error_count,
         added |-> added, raised |-> a.raised]

\* apply_changes giving up the batch when the backup could not be made
apply_changes_backup_required(f, ops, bf, now, changes, keep_original) ==
    LET changed_files == [i \in 1..Len(changes) |-> changes[i].old]
        b == IF keep_original
             THEN create_backup(bf, f, changed_files, now)
             ELSE [backup_folder |-> bf, ret |-> <<>>]
        l == IF keep_original /\ b.ret = <<>>
             THEN [fs |-> f, outcome |-> [k \in 1..Len(changes) |-> "failed"]]
             ELSE ApplyLoop(f, changes, 1, keep_original)
        success_count == Count(l.outcome, "ok")
        error_count == Len(changes) - success_count
        successful_changes == SuccessfulChanges(l.fs, changes, 1)
        added == success_count > 0 /\ successful_changes # <<>>
        a == IF added
             THEN add_operation(ops, Folder, successful_changes, now)
             ELSE [operations |-> ops, raised |-> FALSE]
    IN  [fs |-> l.fs, operations |-> a.operations, backup_folder |-> b.backup_folder,
         backup_path |-> b.ret, outcome |-> l.outcome,
         success_count |-> success_count, error_count |-> error_count,
         added |-> added, raised |-> a.raised]

\* apply_changes once the user has confirmed: the backup, the rename loop
\* and the recording of the operation
apply_changes(f, ops, bf, now, changes, keep_original) ==
    LET changed_files == [i \in 1..Len(changes) |-> changes[i].old]
        b == IF keep_original
             THEN create_backup(bf, f, changed_files, now)
             ELSE [backup_folder |-> bf, ret |-> <<>>]
        l == ApplyLoop(f, changes, 1, keep_original)
        success_count == Count(l.outcome, "ok")
        error_count == Len(changes) - success_count
        successful_changes == SuccessfulChanges(l.fs, changes, 1)
        added == success_count > 0 /\ successful_changes # <<>>
        a == IF added
             THEN add_operation(ops, Folder, successful_changes, now)
             ELSE [operations |-> ops, raised |-> FALSE]
    IN  [fs |-> l.fs, operations |-> a.operations, backup_folder |-> b.backup_folder,
         backup_path |-> b.ret, outcome |-> l.outcome,
         success_count |-> success_count, error_count |-> error_count,
         added |-> added, raised |-> a.raised]

---------------------------------------------------------------------------
(* State *)

EmptyFolder == [n \in AllNames |-> 0]

\* the order of the one-letter names
NameOrder == [c \in {"a", "b", "c", "d", "?"} |->
                 CASE c = "a" -> 1 [] c = "b" -> 2 [] c = "c" -> 3
                   [] c = "d" -> 4 [] OTHER -> 5]

\* names the files of the folder have
DiskNames == { n \in Names : validate_file_name(n) }

\* the file table: a non-empty list of distinct names of files that were in
\* the folder when it was loaded (still there, or deleted since)
Tables ==
    LET listed == { n \in DiskNames : fs[n] # 0 \/ n \in gone }
    IN  UNION { { t \in [1..k -> listed] : \A i, j \in 1..k : t[i] = t[j] => i = j }
                : k \in 1..MaxChanges }

NoCall ==
    [op |-> "none", ret |-> FALSE, raised |-> FALSE,
     operations0 |-> <<>>, fs0 |-> EmptyFolder,
     changes |-> <<>>, outcome |-> <<>>,
     success_count |-> 0, error_count |-> 0,
     keep_original |-> FALSE, backup_path |-> <<>>, added |-> FALSE,
     batch |-> <<>>]

\* the folders a session can start on: files with distinct contents, no
\* '.backup' copies yet.  The valid one-letter names are interchangeable
\* (a file table can list them in any order) and contents are only compared
\* for equality, so one folder is taken for each number of files: the k
\* files are under the first k names and hold the contents 1..k.  A folder
\* without files cannot be loaded (load_files returns before filling the
\* table).
InitFolders ==
    { f \in [AllNames -> 0..MaxContent] :
        /\ \E n \in DiskNames : f[n] # 0
        /\ \A n \in AllNames \ DiskNames : f[n] = 0
        /\ \A n \in DiskNames :
              f[n] # 0 => /\ f[n] = NameOrder[n[1]]
                          /\ \A m \in DiskNames :
                                NameOrder[m[1]] < NameOrder[n[1]] => f[m] # 0 }

\* no EXIFProcessor call made yet
NoExifCall ==
    [op |-> "none", file_name |-> <<>>, exif_data |-> EmptyDict, template |-> <<>>,
     name |-> <<>>, valid |-> FALSE, message |-> "none"]

NoEngineCall ==
    [op |-> "none", rules |-> DefaultRules, file_name |-> <<>>, index |-> 0,
     name |-> <<>>, raised |-> FALSE, again |-> <<>>,
     files |-> <<>>, result |-> EmptyDict]

\* the rule widgets as setup_ui leaves them
DefaultWidgets ==
    [enable_replace |-> FALSE, simple_replace_mode |-> TRUE,
     replace_from |-> <<>>, replace_to |-> <<>>,
     case_sensitive |-> FALSE, replace_all |-> TRUE,
     regex_ignore_case |-> FALSE, regex_dotall |-> FALSE,
     enable_prefix_suffix |-> FALSE, prefix_text |-> <<>>, suffix_text |-> <<>>,
     suffix_before_ext |-> TRUE,
     enable_numbering |-> FALSE, start_number |-> 1, digits_count |-> 3,
     number_separator |-> <<"_">>, number_prefix |-> FALSE,
     lowercase_ext |-> TRUE, remove_spaces |-> FALSE,
     enable_exif |-> FALSE,
     template_input |->
         << "{", "d", "a", "t", "e", "}", "_", "{", "t", "i", "m", "e",
            "}", "_", "{", "c", "a", "m", "e", "r", "a", "}", "_", "{",
            "f", "o", "c", "a", "l", "}", "m", "m", "_", "F", "{", "a",
            "p", "e", "r", "t", "u", "r", "e", "}", "_", "I", "S", "O",
            "{", "i", "s", "o", "}" >>,
     clean_names |-> TRUE, lowercase |-> FALSE, replace_spaces |-> TRUE]

\* the window before a folder is loaded: no files, no worker
PreviewIdle ==
    /\ current_files = <<>>
    /\ ui = DefaultWidgets
    /\ preview_btn = FALSE
    /\ worker = 0
    /\ workers = <<>>
    /\ gui = "idle"
    /\ queue = <<>>
    /\ preview_results = EmptyDict
    /\ progress_bar = 0
    /\ emitted = <<>>
    /\ nuser = 0

Init ==
    /\ platform \in {"posix", "nt"}
    /\ fs \in InitFolders
    /\ operations = <<>>
    /\ clock = 1
    /\ history_file = [exists |-> FALSE, json |-> FALSE, data |-> <<>>]
    /\ backup_folder = [exists |-> FALSE, ids |-> {}, writable |-> TRUE]
    /\ keep_original_box = FALSE
    /\ ntoggle = 0
    /\ locked = {}
    /\ gone = {}
    /\ call = NoCall
    /\ napply = 0
    /\ ncalls = 0
    /\ nenv = 0
    /\ engine = NoEngineCall
    /\ exif_call = NoExifCall
    /\ PreviewIdle

---------------------------------------------------------------------------
(* Actions *)

\* RenamerWindow.apply_changes on a file table and preview results, the
\* user confirming.  The table is what load_files left, the results what
\* the preview produced for its rows (rows whose name does not change add
\* nothing to the batch and are left out of the table here); the folder may
\* have changed since.  load_files at the end reloads the table.
ApplyChanges ==
    /\ UNCHANGED <<rules_vars, preview_vars>>
    /\ napply < MaxApply
    /\ \E table \in Tables :
       \E results \in [Range(table) -> Names] :
       LET changes == CollectChanges(table, results, 1)
           r == apply_changes(fs, operations, backup_folder, clock, changes,
                              keep_original_box)
       IN  /\ Len(changes) = Len(table)
           /\ fs' = r.fs
           /\ operations' = r.operations
           /\ backup_folder' = r.backup_folder
           /\ gone' = IF r.success_count > 0 THEN {} ELSE gone
           /\ call' = [NoCall EXCEPT !.op = "apply", !.raised = r.raised,
                         !.operations0 = operations, !.fs0 = fs,
                         !.changes = changes, !.outcome = r.outcome,
                         !.success_count = r.success_count,
                         !.error_count = r.error_count,
                         !.keep_original = keep_original_box,
                         !.backup_path = r.backup_path, !.added = r.added]
    /\ clock' = clock + 1
    /\ napply' = napply + 1
    /\ UNCHANGED <<platform, keep_original_box, ntoggle, history_file, locked,
                   ncalls, nenv>>

\* UndoManager.undo_last_operation
Undo(limit) ==
    /\ UNCHANGED <<rules_vars, preview_vars>>
    /\ ncalls < limit
    /\ LET r == undo_last_operation(operations, fs)
       IN  /\ fs' = r.fs
           /\ operations' = r.operations
           /\ call' = [NoCall EXCEPT !.op = "undo", !.ret = r.ret, !.raised = r.raised,
                         !.operations0 = operations, !.fs0 = fs,
                         !.changes = IF operations = <<>> THEN <<>>
                                     ELSE operations[Len(operations)].changes,
                         !.success_count = r.success_count,
                         !.error_count = r.error_count,
                         !.batch = IF call.op = "apply" THEN <<call>> ELSE <<>>]
    /\ ncalls' = ncalls + 1
    /\ UNCHANGED <<platform, keep_original_box, ntoggle, clock, history_file,
                   backup_folder, locked, gone,
                   napply, nenv>>

UndoLast == Undo(MaxUndo)

\* a file of the folder is deleted from outside the program
ExternalDelete ==
    /\ UNCHANGED <<rules_vars, preview_vars>>
    /\ nenv < MaxEnv
    /\ \E n \in AllNames :
         /\ fs[n] # 0
         /\ fs' = [fs EXCEPT ![n] = 0]
         /\ gone' = gone \cup ({n} \cap DiskNames)
         /\ locked' = locked \ {n}
    /\ call' = [NoCall EXCEPT !.op = "env"]
    /\ nenv' = nenv + 1
    /\ UNCHANGED <<platform, keep_original_box, ntoggle, operations, clock,
                   history_file, backup_folder, napply, ncalls>>

\* the content of a file that appears from outside: one no file of the
\* folder holds, as long as the model has one
NewContent ==
    LET unused == { c \in 1..MaxContent : \A n \in AllNames : fs[n] # c }
    IN  IF unused = {} THEN MaxContent
        ELSE CHOOSE c \in unused : \A d \in unused : c <= d

\* a file appears in the folder from outside the program
ExternalCreate ==
    /\ UNCHANGED <<rules_vars, preview_vars>>
    /\ nenv < MaxEnv
    /\ \E n \in DiskNames :
         /\ fs[n] = 0
         /\ fs' = [fs EXCEPT ![n] = NewContent]
    /\ call' = [NoCall EXCEPT !.op = "env"]
    /\ nenv' = nenv + 1
    /\ UNCHANGED <<platform, keep_original_box, ntoggle, operations, clock,
                   history_file, backup_folder,
                   locked, gone, napply, ncalls>>

\* the OS starts refusing to rename or read a file (opened by another
\* program, permissions changed)
ExternalLock ==
    /\ UNCHANGED <<rules_vars, preview_vars>>
    /\ nenv < MaxEnv
    /\ \E n \in DiskNames :
         /\ fs[n] # 0
         /\ n \notin locked
         /\ locked' = locked \cup {n}
    /\ call' = [NoCall EXCEPT !.op = "env"]
    /\ nenv' = nenv + 1
    /\ UNCHANGED <<fs, platform, keep_original_box, ntoggle, operations, clock,
                   history_file, backup_folder,
                   gone, napply, ncalls>>

\* the user switches the keep-original box
ToggleKeepOriginal ==
    /\ UNCHANGED <<rules_vars, preview_vars>>
    /\ ntoggle < MaxToggle
    /\ keep_original_box' = ~keep_original_box
    /\ ntoggle' = ntoggle + 1
    /\ UNCHANGED <<fs, platform, operations, clock, history_file, backup_folder,
                   locked, gone, call, napply, ncalls, nenv>>

\* the place of the backup folder stops being writable
ExternalDenyBackup ==
    /\ UNCHANGED <<rules_vars, preview_vars>>
    /\ nenv < MaxEnv
    /\ backup_folder.writable
    /\ backup_folder' = [backup_folder EXCEPT !.writable = FALSE]
    /\ call' = [NoCall EXCEPT !.op = "env"]
    /\ nenv' = nenv + 1
    /\ UNCHANGED <<fs, platform, keep_original_box, ntoggle, operations, clock,
                   history_file, locked, gone,
                   napply, ncalls>>

---------------------------------------------------------------------------
(* The UndoManager called directly *)

\* the change lists add_operation is called with
ApiChanges ==
    { <<[old |-> <<"a">>, new |-> <<"b">>]>>,
      <<[old |-> <<"b">>, new |-> <<"a">>]>>,
      <<[old |-> <<"a">>, new |-> <<"c">>], [old |-> <<"b">>, new |-> <<"d">>]>> }

\* UndoManager.add_operation
AddOperation ==
    /\ UNCHANGED <<rules_vars, preview_vars>>
    /\ ncalls < MaxHistoryCalls
    /\ \E changes \in ApiChanges :
       LET r == add_operation(operations, Folder, changes, clock)
       IN  /\ operations' = r.operations
           /\ call' = [NoCall EXCEPT !.op = "add", !.raised = r.raised,
                         !.operations0 = operations, !.fs0 = fs,
                         !.changes = changes]
    /\ clock' = clock + 1
    /\ ncalls' = ncalls + 1
    /\ UNCHANGED <<fs, platform, keep_original_box, ntoggle, history_file,
                   backup_folder, locked, gone, napply, nenv>>

UndoDirect == Undo(MaxHistoryCalls)

\* UndoManager.save_history
SaveHistory ==
    /\ UNCHANGED <<rules_vars, preview_vars>>
    /\ ncalls < MaxHistoryCalls
    /\ \E sfault \in 0..2 :
       LET r == save_history(operations, history_file, sfault)
       IN  /\ history_file' = r.history_file
           /\ call' = [NoCall EXCEPT !.op = "save", !.ret = r.ret,
                         !.operations0 = operations, !.fs0 = fs]
    /\ ncalls' = ncalls + 1
    /\ UNCHANGED <<fs, platform, keep_original_box, ntoggle, operations, clock,
                   backup_folder, locked, gone,
                   napply, nenv>>

\* UndoManager.load_history
LoadHistory ==
    /\ UNCHANGED <<rules_vars, preview_vars>>
    /\ ncalls < MaxHistoryCalls
    /\ LET r == load_history(operations, history_file)
       IN  /\ operations' = r.operations
           /\ call' = [NoCall EXCEPT !.op = "load", !.ret = r.ret,
                         !.operations0 = operations, !.fs0 = fs,
                         !.batch = IF call.op = "save" THEN <<call>> ELSE <<>>]
    /\ ncalls' = ncalls + 1
    /\ UNCHANGED <<fs, platform, keep_original_box, ntoggle, clock, history_file,
                   backup_folder, locked, gone,
                   napply, nenv>>

\* UndoManager.clear_history
ClearHistory ==
    /\ UNCHANGED <<rules_vars, preview_vars>>
    /\ ncalls < MaxHistoryCalls
    /\ \E cfault \in BOOLEAN :
       LET r == clear_history(backup_folder, cfault)
       IN  /\ operations' = r.operations
           /\ backup_folder' = r.backup_folder
           /\ call' = [NoCall EXCEPT !.op = "clear",
                         !.operations0 = operations, !.fs0 = fs]
    /\ ncalls' = ncalls + 1
    /\ UNCHANGED <<fs, platform, keep_original_box, ntoggle, clock, history_file,
                   locked, gone, napply, nenv>>

\* a record of a history file written elsewhere
ForeignRecord(i, good) ==
    [timestamp |-> IF good THEN IsoFormat(100 + i) ELSE <<"not a date">>,
     folder_path |-> Folder,
     changes |-> <<[old |-> <<"a">>, new |-> <<"b">>]>>,
     operation_id |-> 100 + i]

\* the history file is written from outside this UndoManager: by a manager
\* with a larger cap, by an editor, or damaged
WriteHistoryFile ==
    /\ UNCHANGED <<rules_vars, preview_vars>>
    /\ nenv < MaxEnv
    /\ \E k \in 0..(MaxOperations + 1), bad \in 0..(MaxOperations + 1), json \in BOOLEAN :
         /\ bad <= k
         /\ ~json => k = 0
         /\ history_file' =
              [exists |-> TRUE, json |-> json,
               data |-> [i \in 1..k |-> ForeignRecord(i, i # bad)]]
    /\ call' = [NoCall EXCEPT !.op = "env"]
    /\ nenv' = nenv + 1
    /\ UNCHANGED <<fs, platform, keep_original_box, ntoggle, operations, clock,
                   backup_folder, locked, gone,
                   napply, ncalls>>

NextHistory ==
    \/ AddOperation
    \/ UndoDirect
    \/ SaveHistory
    \/ LoadHistory
    \/ ClearHistory
    \/ WriteHistoryFile
    \/ ExternalDelete

SpecHistory == Init /\ [][NextHistory]_vars

---------------------------------------------------------------------------

Next ==
    \/ ApplyChanges
    \/ UndoLast
    \/ ExternalDelete
    \/ ExternalCreate
    \/ ExternalLock
    \/ ExternalDenyBackup
    \/ ToggleKeepOriginal

Spec == Init /\ [][Next]_vars

---------------------------------------------------------------------------
(* The rules engine called directly: inputs, state and actions *)

\* the file names handed to the engine: "A a.TXT", ".Ab" and "AA.B"
NameInputs ==
    { <<"A", " ", "a", ".", "T", "X", "T">>, <<".", "A", "b">>, <<"A", "A", ".", "B">> }

\* the texts typed into the replace group: nothing, a letter, a dot, an
\* opening parenthesis; a replacement with a space, and one with a group
\* reference
ReplaceFromInputs == { <<>>, <<"A">>, <<".">>, <<"(">> }
ReplaceToInputs == { <<" ", "x">>, <<"\\", "1">> }

\* the replace group of the window: switched off, or switched on in simple
\* or in regular-expression mode; only the widgets of the chosen mode vary
ReplaceWidgets ==
    { [enable_replace |-> FALSE, simple_replace_mode |-> TRUE,
       replace_from |-> <<>>, replace_to |-> <<>>,
       case_sensitive |-> FALSE, replace_all |-> TRUE,
       regex_ignore_case |-> FALSE, regex_dotall |-> FALSE] }
    \cup
    { [enable_replace |-> TRUE, simple_replace_mode |-> TRUE,
       replace_from |-> f, replace_to |-> t,
       case_sensitive |-> c, replace_all |-> a,
       regex_ignore_case |-> FALSE, regex_dotall |-> FALSE] :
         f \in ReplaceFromInputs, t \in ReplaceToInputs, c \in BOOLEAN, a \in BOOLEAN }
    \cup
    { [enable_replace |-> TRUE, simple_replace_mode |-> FALSE,
       replace_from |-> f, replace_to |-> t,
       case_sensitive |-> FALSE, replace_all |-> TRUE,
       regex_ignore_case |-> g, regex_dotall |-> FALSE] :
         f \in ReplaceFromInputs, t \in ReplaceToInputs, g \in BOOLEAN }

\* the prefix/suffix group: switched off, or with prefix "p " and suffix "S"
PrefixWidgets ==
    { [enable_prefix_suffix |-> FALSE, prefix_text |-> <<>>, suffix_text |-> <<>>,
       suffix_before_ext |-> TRUE] }
    \cup
    { [enable_prefix_suffix |-> TRUE, prefix_text |-> <<"p", " ">>,
       suffix_text |-> <<"S">>, suffix_before_ext |-> b] : b \in BOOLEAN }

\* the numbering group: switched off, or on with the numbers of the bounds
NumberWidgets ==
    { [enable_numbering |-> FALSE, start_number |-> 1, digits_count |-> 3,
       number_separator |-> <<"_">>, number_prefix |-> FALSE] }
    \cup
    { [enable_numbering |-> TRUE, start_number |-> s, digits_count |-> d,
       number_separator |-> <<"_">>, number_prefix |-> p] :
         s \in 1..MaxStart, d \in 1..MaxDigits, p \in BOOLEAN }

\* the boxes of the 'more' group, and the EXIF box (unchecked here: the
\* engine does not read it)
ExtraWidgets ==
    [lowercase_ext : BOOLEAN, remove_spaces : BOOLEAN, enable_exif : {FALSE},
     template_input : {DefaultWidgets.template_input},
     clean_names : {TRUE}, lowercase : {FALSE}, replace_spaces : {TRUE}]

\* the states of the rule widgets
UiInputs ==
    { rp @@ ps @@ nb @@ ex :
        rp \in ReplaceWidgets, ps \in PrefixWidgets, nb \in NumberWidgets,
        ex \in ExtraWidgets }

\* the rules the window can hand to the engine
RuleInputs == { collect_rules(u) : u \in UiInputs }

\* lists of distinct file names, as load_files builds them from a folder
FileLists ==
    UNION { { l \in [1..k -> NameInputs] : \A i, j \in 1..k : l[i] = l[j] => i = j }
            : k \in 0..MaxFiles }

\* RulesEngine.generate_new_name on a name and an index
GenerateNewName ==
    /\ engine.op = "none"
    /\ \E file_name \in NameInputs, index \in 0..MaxIndex :
         LET g == generate_new_name(file_name, index, engine.rules)
         IN  engine' = [engine EXCEPT !.op = "generate_new_name",
                                      !.file_name = file_name, !.index = index,
                                      !.name = g.name, !.raised = g.raised]
    /\ UNCHANGED <<folder_vars, preview_vars, exif_call>>

\* RulesEngine.generate_new_name on the name it returned, with the same
\* index and rules
GenerateAgain ==
    /\ engine.op = "generate_new_name"
    /\ ~engine.raised
    /\ LET g == generate_new_name(engine.name, engine.index, engine.rules)
       IN  engine' = [engine EXCEPT !.op = "again", !.again = g.name,
                                    !.raised = g.raised]
    /\ UNCHANGED <<folder_vars, preview_vars, exif_call>>

\* RulesEngine.batch_process on a list of files
BatchProcess ==
    /\ engine.op = "none"
    /\ \E files \in FileLists :
         LET b == batch_process(files, engine.rules)
         IN  engine' = [engine EXCEPT !.op = "batch_process", !.files = files,
                                      !.result = b.result, !.raised = b.raised]
    /\ UNCHANGED <<folder_vars, preview_vars, exif_call>>

\* the folder side at rest, for the behaviours that only use the engine or
\* the preview
FolderIdle ==
    /\ platform = "posix"
    /\ fs = EmptyFolder
    /\ operations = <<>>
    /\ clock = 1
    /\ history_file = [exists |-> FALSE, json |-> FALSE, data |-> <<>>]
    /\ backup_folder = [exists |-> FALSE, ids |-> {}, writable |-> TRUE]
    /\ keep_original_box = FALSE
    /\ ntoggle = 0
    /\ locked = {}
    /\ gone = {}
    /\ call = NoCall
    /\ napply = 0
    /\ ncalls = 0
    /\ nenv = 0

InitRules ==
    /\ FolderIdle
    /\ PreviewIdle
    /\ engine \in { [NoEngineCall EXCEPT !.rules = r] : r \in RuleInputs }
    /\ exif_call = NoExifCall

NextRules ==
    \/ GenerateNewName
    \/ GenerateAgain
    \/ BatchProcess

SpecRules == InitRules /\ [][NextRules]_vars

---------------------------------------------------------------------------
(* The EXIF processor called directly: inputs, state and actions *)

\* the tag maps get_all_exif_data returns: none (no EXIF, or the file cannot
\* be read), a photo with date and camera, one with the camera only, one
\* with the ISO value only
TagInputs ==
    { EmptyDict,
      ("DateTimeOriginal" :> <<"2", "0", "2", "4", ":", "0", "1", ":", "0", "2", " ", "0", "3", ":", "0", "4", ":", "0", "5">> @@ "Model" :> <<"C", " ", "1">>),
      ("Model" :> <<"C", " ", "1">>),
      ("ISOSpeedRatings" :> <<"1", "0", "0">>) }

\* the templates typed into the EXIF group: nothing, the short default,
\* names that are no placeholders, a placeholder inside another, hyphens and
\* underscores between and around placeholders, braces left open
TemplateInputs ==
    { <<>>,
      <<"{", "d", "a", "t", "e", "}", "_", "{", "c", "a", "m", "e", "r", "a", "}">>,
      <<"{", "x", "}", "_", "{", "c", "a", "m", "e", "r", "a", "}">>,
      <<"{", "d", "a", "{", "i", "s", "o", "}", "t", "e", "}">>,
      <<"{", "d", "a", "t", "e", "}", "-", "-", "{", "c", "a", "m", "e", "r", "a", "}">>,
      <<"{", "d", "a", "t", "e", "}", "-", "{", "c", "a", "m", "e", "r", "a", "}">>,
      <<"_", "_", "{", "i", "s", "o", "}", "_", "_">>,
      <<"{", "i", "s", "o", "}", "-", "{", "f", "o", "c", "a", "l", "}">>,
      <<"{", "d", "a", "t", "e", "}", "{">>,
      <<"{", "x", "}">>,
      <<"{", "x">>,
      <<"a", "b">>,
      <<"{", "c", "a", "m", "e", "r", "a", "}", "}">>,
      <<"}", "{">> }

\* the names handed to generate_filename_from_exif: "A b.JPG" and "a"
ExifNameInputs == { <<"A", " ", "b", ".", "J", "P", "G">>, <<"a">> }

\* EXIFProcessor.generate_filename_from_exif on a name, the tags of its file
\* and a template
GenerateFilenameFromExif ==
    /\ exif_call.op = "none"
    /\ exif_call' =
         [exif_call EXCEPT !.op = "generate_filename_from_exif",
                           !.name = generate_filename_from_exif(
                                        exif_call.file_name, ExifOf(exif_call.exif_data),
                                        exif_call.template)]
    /\ UNCHANGED <<folder_vars, preview_vars, engine>>

\* EXIFProcessor.validate_template on a template
ValidateTemplate ==
    /\ exif_call.op = "none"
    /\ LET v == validate_template(exif_call.template)
       IN  exif_call' = [exif_call EXCEPT !.op = "validate_template",
                                          !.valid = v.valid, !.message = v.message]
    /\ UNCHANGED <<folder_vars, preview_vars, engine>>

InitTemplate ==
    /\ FolderIdle
    /\ PreviewIdle
    /\ engine = NoEngineCall
    /\ exif_call \in { [NoExifCall EXCEPT !.file_name = n, !.exif_data = d, !.template = t] :
                          n \in ExifNameInputs, d \in TagInputs, t \in TemplateInputs }

NextTemplate ==
    \/ GenerateFilenameFromExif
    \/ ValidateTemplate

SpecTemplate == InitTemplate /\ [][NextTemplate]_vars

---------------------------------------------------------------------------
(* The preview: PreviewWorker threads and the handlers of the window *)

\* PreviewWorker.__init__ and start(): the thread is at the head of the loop
\* of run, before the first file
PreviewWorker(files, rules) ==
    [files |-> files, rules |-> rules, is_running |-> TRUE,
     pc |-> "check", i |-> 0, results |-> EmptyDict, exists |-> "not asked",
     thread |-> "running", terminated |-> FALSE]

\* self.files of worker w
WorkerFiles_live(w) == current_files

WorkerFiles(w) == workers[w].files

\* self.rules of worker w
WorkerRules_live(w) == collect_rules(ui)

WorkerRules(w) == workers[w].rules

\* int((i + 1) / total_files * 100) of run, i counted from 0; the float
\* product is exact enough for the lists of the model
Progress_remaining(i, total_files) == ((total_files - i) * 100) \div total_files

Progress(i, total_files) == ((i + 1) * 100) \div total_files

\* a signal emitted from the thread of worker w is queued for the GUI thread
Post(w, sig, value) ==
    queue' = Append(queue, [sender |-> w, sig |-> sig, value |-> value])

\* pyqtSignal.emit of one of the three signals of PreviewWorker from the
\* thread of worker w; the log of the run keeps whether stop() had set the
\* flag by then
Emit(w, sig, value) ==
    /\ Post(w, sig, value)
    /\ emitted' = [emitted EXCEPT ![w] =
                     Append(@, [sig |-> sig, value |-> value,
                                after_stop |-> ~workers[w].is_running])]

\* a PreviewWorker whose thread has ended: the locals of run are gone
FinishedWorker ==
    [files |-> <<>>, rules |-> DefaultRules, is_running |-> FALSE,
     pc |-> "done", i |-> 0, results |-> EmptyDict, exists |-> "not asked",
     thread |-> "finished", terminated |-> FALSE]

Running == { w \in 1..Len(workers) : workers[w].thread = "running" }

\* run, the head of the loop: the next file if there is one and the flag is
\* still set (lines 55-58)
WorkerCheck(w) ==
    /\ workers[w].thread = "running"
    /\ workers[w].pc = "check"
    /\ workers' = [workers EXCEPT ![w].pc =
                     IF workers[w].i < Len(WorkerFiles(w)) /\ workers[w].is_running
                     THEN "progress" ELSE "final"]
    /\ UNCHANGED <<folder_vars, rules_vars, current_files, ui, preview_btn,
                   worker, gui, queue, preview_results, progress_bar, emitted, nuser>>

\* run, the body of the loop: the progress of the file about to be named is
\* emitted (lines 61-62)
WorkerProgress(w) ==
    /\ workers[w].thread = "running"
    /\ workers[w].pc = "progress"
    /\ Emit(w, "progress_updated", Progress(workers[w].i, Len(WorkerFiles(w))))
    /\ workers' = [workers EXCEPT ![w].pc = "body"]
    /\ UNCHANGED <<folder_vars, rules_vars, current_files, ui, preview_btn,
                   worker, gui, preview_results, progress_bar, nuser>>

\* run, the body of the loop: the new name of the file and its entry of
\* results (lines 65-107).  Whether the file is still in the folder and
\* what EXIF data it holds is found out here; os.path.exists is asked for
\* an image with EXIF switched on only.  An exception leads to the handler
\* of run.
WorkerBody(w) ==
    /\ workers[w].thread = "running"
    /\ workers[w].pc = "body"
    /\ \E exists \in BOOLEAN, exif \in ExifInputs :
         LET i == workers[w].i
             file_name == WorkerFiles(w)[i + 1]
             rules == WorkerRules(w)
             g == run_new_name(file_name, i, rules, exists, exif)
             asked == rules.enable_exif
                        /\ Lower(SplitExt(file_name)[2]) \in image_extensions
         IN  workers' = IF g.raised
                        THEN [workers EXCEPT ![w].pc = "except"]
                        ELSE [workers EXCEPT ![w].pc = "check",
                                             ![w].i = i + 1,
                                             ![w].results = Put(@, file_name, g.name),
                                             ![w].exists = IF ~asked THEN "not asked"
                                                           ELSE IF exists THEN "yes"
                                                           ELSE "no"]
    /\ UNCHANGED <<folder_vars, rules_vars, current_files, ui, preview_btn,
                   worker, gui, queue, preview_results, progress_bar, emitted, nuser>>

\* run after the loop: if self._is_running (line 109)
WorkerFinal(w) ==
    /\ workers[w].thread = "running"
    /\ workers[w].pc = "final"
    /\ workers' = [workers EXCEPT ![w].pc =
                     IF workers[w].is_running THEN "emit_result" ELSE "return"]
    /\ UNCHANGED <<folder_vars, rules_vars, current_files, ui, preview_btn,
                   worker, gui, queue, preview_results, progress_bar, emitted, nuser>>

\* self.preview_finished.emit(results) (line 110)
WorkerEmitResult(w) ==
    /\ workers[w].thread = "running"
    /\ workers[w].pc = "emit_result"
    /\ Emit(w, "preview_finished", workers[w].results)
    /\ workers' = [workers EXCEPT ![w].pc = "return"]
    /\ UNCHANGED <<folder_vars, rules_vars, current_files, ui, preview_btn,
                   worker, gui, preview_results, progress_bar, nuser>>

\* the handler of run: if self._is_running (line 113)
WorkerExcept(w) ==
    /\ workers[w].thread = "running"
    /\ workers[w].pc = "except"
    /\ workers' = [workers EXCEPT ![w].pc =
                     IF workers[w].is_running THEN "emit_error" ELSE "return"]
    /\ UNCHANGED <<folder_vars, rules_vars, current_files, ui, preview_btn,
                   worker, gui, queue, preview_results, progress_bar, emitted, nuser>>

\* self.error_occurred.emit(str(e)) (line 114)
WorkerEmitError(w) ==
    /\ workers[w].thread = "running"
    /\ workers[w].pc = "emit_error"
    /\ Emit(w, "error_occurred", <<>>)
    /\ workers' = [workers EXCEPT ![w].pc = "return"]
    /\ UNCHANGED <<folder_vars, rules_vars, current_files, ui, preview_btn,
                   worker, gui, preview_results, progress_bar, nuser>>

\* run returns: the thread ends and QThread emits finished
WorkerReturn(w) ==
    /\ workers[w].thread = "running"
    /\ workers[w].pc = "return"
    /\ Post(w, "finished", <<>>)
    /\ emitted' = [emitted EXCEPT ![w] = <<>>]
    /\ workers' = [workers EXCEPT ![w] = FinishedWorker]
    /\ UNCHANGED <<folder_vars, rules_vars, current_files, ui, preview_btn,
                   worker, gui, preview_results, progress_bar, nuser>>

\* a thread on which terminate() was called ends wherever it is; until then
\* it runs on (QThread.terminate: the thread may or may not be terminated
\* immediately)
WorkerTerminated(w) ==
    /\ workers[w].thread = "running"
    /\ workers[w].terminated
    /\ Post(w, "finished", <<>>)
    /\ emitted' = [emitted EXCEPT ![w] = <<>>]
    /\ workers' = [workers EXCEPT ![w] = FinishedWorker]
    /\ UNCHANGED <<folder_vars, rules_vars, current_files, ui, preview_btn,
                   worker, gui, preview_results, progress_bar, nuser>>

\* the text typed into the EXIF template: date and camera
ShortTemplate == <<"{", "d", "a", "t", "e", "}", "_", "{", "c", "a", "m", "e", "r", "a", "}">>

\* the rule widgets of the previews: numbering as suffix or as prefix, or a
\* replacement whose text is not a valid template; the EXIF box checked or
\* not
PreviewWidgets ==
    { [DefaultWidgets EXCEPT !.enable_numbering = TRUE, !.number_prefix = p,
                             !.enable_exif = x, !.template_input = ShortTemplate] :
        p \in BOOLEAN, x \in BOOLEAN }
    \cup
    { [DefaultWidgets EXCEPT !.enable_replace = TRUE, !.replace_from = <<"A">>,
                             !.replace_to = <<"\\", "1">>,
                             !.enable_exif = x, !.template_input = ShortTemplate] :
        x \in BOOLEAN }

\* the file lists of the previews: the first files of the folder in one
\* order, and the whole list in the opposite order
PreviewOrder ==
    << <<"A", " ", "a", ".", "T", "X", "T">>, <<"A", " ", "b", ".", "J", "P", "G">>,
       <<".", "A", "b">> >>

PreviewLists ==
    { SubSeq(PreviewOrder, 1, k) : k \in 1..MaxFiles }
    \cup { [i \in 1..MaxFiles |-> PreviewOrder[MaxFiles + 1 - i]] }

\* the rest of preview_changes once no worker of the window is running any
\* more (lines 2472-2491): the buttons, the rules collected from the widgets
\* u, the new worker over the current file list, started.  ws: the workers
\* as stop() left them.
StartWorker(ws, u) ==
    /\ workers' = Append(ws, PreviewWorker(current_files, collect_rules(u)))
    /\ worker' = Len(ws) + 1
    /\ emitted' = Append(emitted, <<>>)
    /\ preview_btn' = FALSE
    /\ progress_bar' = 0
    /\ gui' = "idle"

\* preview_changes with the widgets u, as long as fewer than limit workers
\* were created: without files it returns at once; a
\* running worker of the window is stopped first (stop() sets the flag and
\* waits, lines 2464-2469 and 116-120), otherwise the new worker is started
preview_changes(u, limit) ==
    /\ current_files # <<>>
    /\ Len(workers) < limit
    /\ IF worker # 0 /\ workers[worker].thread = "running"
       THEN /\ workers' = [workers EXCEPT ![worker].is_running = FALSE]
            /\ gui' = "stop"
            /\ UNCHANGED <<worker, emitted, preview_btn, progress_bar>>
       ELSE StartWorker(workers, u)

\* the preview button
Click(limit) ==
    /\ gui = "idle"
    /\ preview_btn
    /\ preview_changes(ui, limit)
    /\ UNCHANGED <<folder_vars, rules_vars, current_files, ui, queue, preview_results, nuser>>

ClickPreview == Click(MaxWorkers)

\* on_template_change and on_exif_template_changed: the EXIF template is
\* edited or set again (set_template) while the EXIF box is checked, and a
\* preview is started
TemplateChanged(limit) ==
    /\ gui = "idle"
    /\ ui.enable_exif
    /\ preview_changes(ui, limit)
    /\ UNCHANGED <<folder_vars, rules_vars, current_files, ui, queue, preview_results, nuser>>

ExifTemplateChanged == TemplateChanged(MaxWorkers)

\* stop(): wait(2000) returns because the thread has ended; preview_changes
\* goes on
WaitReturns ==
    /\ gui = "stop"
    /\ workers[worker].thread = "finished"
    /\ StartWorker(workers, ui)
    /\ UNCHANGED <<folder_vars, rules_vars, current_files, ui, queue, preview_results, nuser>>

\* stop(): wait(2000) runs out while the thread is still running; the thread
\* is terminated and preview_changes goes on (lines 120-122)
WaitTimesOut ==
    /\ gui = "stop"
    /\ workers[worker].thread = "running"
    /\ StartWorker([workers EXCEPT ![worker].terminated = TRUE], ui)
    /\ UNCHANGED <<folder_vars, rules_vars, current_files, ui, queue, preview_results, nuser>>

\* the user changes the rule widgets
EditRules ==
    /\ gui = "idle"
    /\ nuser < MaxUser
    /\ nuser' = nuser + 1
    /\ \E u \in PreviewWidgets :
         /\ u.enable_exif = ui.enable_exif
         /\ u # ui
         /\ ui' = u
    /\ UNCHANGED <<folder_vars, rules_vars, current_files, preview_btn, worker,
                   workers, gui, queue, preview_results, progress_bar, emitted>>

\* load_files: the list is read from the folder again, filtered and sorted;
\* current_files is bound to the new list
LoadFiles ==
    /\ gui = "idle"
    /\ nuser < MaxUser
    /\ nuser' = nuser + 1
    /\ \E files \in PreviewLists : files # current_files /\ current_files' = files
    /\ preview_btn' = TRUE
    /\ progress_bar' = 0
    /\ UNCHANGED <<folder_vars, rules_vars, ui, worker, workers, gui, queue,
                   preview_results, emitted>>

\* the GUI thread takes the next queued signal: progress_bar.setValue
ProgressBarSetValue ==
    /\ gui = "idle"
    /\ queue # <<>>
    /\ Head(queue).sig = "progress_updated"
    /\ progress_bar' = Head(queue).value
    /\ queue' = Tail(queue)
    /\ UNCHANGED <<folder_vars, rules_vars, current_files, ui, preview_btn, worker,
                   workers, gui, preview_results, emitted, nuser>>

\* on_preview_finished
OnPreviewFinished ==
    /\ gui = "idle"
    /\ queue # <<>>
    /\ Head(queue).sig = "preview_finished"
    /\ preview_results' = Head(queue).value
    /\ preview_btn' = TRUE
    /\ progress_bar' = 100
    /\ queue' = Tail(queue)
    /\ UNCHANGED <<folder_vars, rules_vars, current_files, ui, worker, workers, gui,
                   emitted, nuser>>

\* on_preview_error
OnPreviewError ==
    /\ gui = "idle"
    /\ queue # <<>>
    /\ Head(queue).sig = "error_occurred"
    /\ preview_btn' = TRUE
    /\ queue' = Tail(queue)
    /\ UNCHANGED <<folder_vars, rules_vars, current_files, ui, worker, workers, gui,
                   preview_results, progress_bar, emitted, nuser>>

\* on_worker_finished: the reference to the worker is dropped, whichever
\* worker the signal came from
OnWorkerFinished ==
    /\ gui = "idle"
    /\ queue # <<>>
    /\ Head(queue).sig = "finished"
    /\ worker' = 0
    /\ queue' = Tail(queue)
    /\ UNCHANGED <<folder_vars, rules_vars, current_files, ui, preview_btn,
                   workers, gui, preview_results, progress_bar, emitted, nuser>>

\* RulesEngine.batch_process on the file list and the rules of the window
BatchProcessFiles ==
    /\ gui = "idle"
    /\ engine.op = "none"
    /\ LET rules == collect_rules(ui)
           b == batch_process(current_files, rules)
       IN  engine' = [engine EXCEPT !.op = "batch_process", !.rules = rules,
                                    !.files = current_files,
                                    !.result = b.result, !.raised = b.raised]
    /\ UNCHANGED <<folder_vars, preview_vars, exif_call>>

\* a window with a folder loaded: load_files has filled current_files and
\* enabled the buttons
InitPreview ==
    /\ FolderIdle
    /\ engine = NoEngineCall
    /\ exif_call = NoExifCall
    /\ current_files = SubSeq(PreviewOrder, 1, MaxFiles)
    /\ ui \in { u \in PreviewWidgets : u.enable_numbering /\ ~u.number_prefix }
    /\ preview_btn = TRUE
    /\ worker = 0
    /\ workers = <<>>
    /\ gui = "idle"
    /\ queue = <<>>
    /\ preview_results = EmptyDict
    /\ progress_bar = 0
    /\ emitted = <<>>
    /\ nuser = 0

NextPreview ==
    \/ ClickPreview
    \/ ExifTemplateChanged
    \/ WaitReturns
    \/ WaitTimesOut
    \/ EditRules
    \/ LoadFiles
    \/ ProgressBarSetValue
    \/ OnPreviewFinished
    \/ OnPreviewError
    \/ OnWorkerFinished
    \/ BatchProcessFiles
    \/ \E w \in Running : WorkerCheck(w)
    \/ \E w \in Running : WorkerProgress(w)
    \/ \E w \in Running : WorkerBody(w)
    \/ \E w \in Running : WorkerFinal(w)
    \/ \E w \in Running : WorkerEmitResult(w)
    \/ \E w \in Running : WorkerExcept(w)
    \/ \E w \in Running : WorkerEmitError(w)
    \/ \E w \in Running : WorkerReturn(w)
    \/ \E w \in Running : WorkerTerminated(w)

SpecPreview == InitPreview /\ [][NextPreview]_vars

\* Runs superseding one another: a window with one file loaded, the widgets
\* left alone, previews started from the button and from the EXIF template
ClickAgain == Click(MaxRuns)

ExifTemplateChangedAgain == TemplateChanged(MaxRuns)

InitSupersede ==
    /\ FolderIdle
    /\ engine = NoEngineCall
    /\ exif_call = NoExifCall
    /\ current_files = SubSeq(PreviewOrder, 1, 1)
    /\ ui \in { u \in PreviewWidgets : u.enable_numbering /\ ~u.number_prefix }
    /\ preview_btn = TRUE
    /\ worker = 0
    /\ workers = <<>>
    /\ gui = "idle"
    /\ queue = <<>>
    /\ preview_results = EmptyDict
    /\ progress_bar = 0
    /\ emitted = <<>>
    /\ nuser = 0

NextSupersede ==
    \/ ClickAgain
    \/ ExifTemplateChangedAgain
    \/ WaitReturns
    \/ WaitTimesOut
    \/ ProgressBarSetValue
    \/ OnPreviewFinished
    \/ OnWorkerFinished
    \/ \E w \in Running : WorkerCheck(w)
    \/ \E w \in Running : WorkerProgress(w)
    \/ \E w \in Running : WorkerBody(w)
    \/ \E w \in Running : WorkerFinal(w)
    \/ \E w \in Running : WorkerEmitResult(w)
    \/ \E w \in Running : WorkerReturn(w)
    \/ \E w \in Running : WorkerTerminated(w)

SpecSupersede == InitSupersede /\ [][NextSupersede]_vars

---------------------------------------------------------------------------
(* Properties *)

\* the history without its most recent entry
Front(ops) == SubSeq(ops, 1, Len(ops) - 1)

\* the names under which the folder holds a file
Present(f) == { n \in AllNames : f[n] # 0 }

\* the last call was undo_last_operation on a non-empty history
UndoRan == call.op = "undo" /\ call.operations0 # <<>>

\* C1: round-trip undo.  When a batch in which every rename succeeded is
\* applied and undo_last_operation is called right after it (no file being
\* refused by the OS), every file of the batch is back under its pre-batch
\* name with its pre-batch content, and if every pair was reversed and the
\* history held only this operation, the history is empty.
C1_RoundTripUndo ==
    (/\ UndoRan
     /\ call.batch # <<>>
     /\ locked = {}
     /\ \A i \in 1..Len(call.batch[1].outcome) : call.batch[1].outcome[i] = "ok")
    => LET b == call.batch[1]
       IN  /\ \A i \in 1..Len(b.changes) : fs[b.changes[i].old] = b.fs0[b.changes[i].old]
           /\ (b.operations0 = <<>> /\ call.success_count = Len(call.changes))
                 => operations = <<>>

\* C2: when undo_last_operation reverses at least one pair and every other
\* pair is either reversed or missing on disk, it returns true, the
\* operation is removed from the history and nothing is raised.
C2_PartialUndoSucceeds ==
    (/\ UndoRan
     /\ call.success_count > 0
     /\ call.success_count + call.error_count = Len(call.changes))
    => /\ call.ret = TRUE
       /\ ~call.raised
       /\ operations = Front(call.operations0)

\* C2 witness: an undo that reversed one pair and found another missing
C2_Witness ==
    /\ UndoRan
    /\ call.success_count > 0
    /\ call.error_count > 0
    /\ call.success_count + call.error_count = Len(call.changes)

\* C3: when undo_last_operation reverses no file at all because every
\* renamed file is missing, the operation stays the most recent entry of
\* the history.
C3_NothingReversedKeepsOperation ==
    (/\ UndoRan
     /\ call.success_count = 0
     /\ call.error_count = Len(call.changes))
    => operations = call.operations0

\* C4: when a reverse rename raises during undo_last_operation, the call
\* returns false and the history equals what it was before the call.
C4_ExceptionRestoresOperation ==
    (UndoRan /\ call.raised)
    => /\ call.ret = FALSE
       /\ operations = call.operations0

\* C4 witness: an undo whose os.rename raised
C4_Witness == UndoRan /\ call.raised /\ Len(call.operations0) >= 1

\* C5: when undo_last_operation fails with an exception, the set of file
\* names in the folder is what it was before the call.
C5_FailedUndoTouchesNothing ==
    (UndoRan /\ call.raised) => Present(fs) = Present(call.fs0)

\* C6: the number of stored operations never exceeds max_operations.
C6_HistoryBounded == Len(operations) <= MaxOperations

\* C7: add_operation makes the new operation the most recent one and removes
\* only the oldest entry, and only when the history was full;
\* undo_last_operation removes at most the most recent entry; all other
\* entries stay unchanged and in order.
C7_StackWithOldestEviction ==
    /\ (call.op = "add" /\ ~call.raised)
         => /\ get_last_operation(operations) # <<>>
            /\ get_last_operation(operations)[1].changes = call.changes
            /\ \A i \in 1..Len(call.operations0) :
                 get_last_operation(operations)[1].operation_id
                   # call.operations0[i].operation_id
            /\ \/ Front(operations) = call.operations0
               \/ /\ Len(call.operations0) >= MaxOperations
                  /\ Front(operations) = Tail(call.operations0)
            /\ Len(call.operations0) < MaxOperations
                 => Front(operations) = call.operations0
    /\ call.op = "undo"
         => \/ operations = call.operations0
            \/ operations = Front(call.operations0)

\* C7 witness: an add on a full history of at least two entries, the second
\* oldest now being the oldest
C7_Witness ==
    /\ call.op = "add"
    /\ Len(call.operations0) >= MaxOperations
    /\ Len(call.operations0) >= 2
    /\ operations[1] = call.operations0[2]

\* C8: apply_changes adds an operation only if at least one file of the
\* batch was renamed; a batch in which every rename fails leaves the
\* history unchanged and no file of the folder under another name.
C8_OperationOnlyAfterSuccess ==
    call.op = "apply"
    => /\ operations # call.operations0
            => \E i \in 1..Len(call.outcome) :
                 /\ call.outcome[i] = "ok"
                 /\ call.fs0[call.changes[i].old] # 0
       /\ (\A i \in 1..Len(call.outcome) : call.outcome[i] # "ok")
            => /\ operations = call.operations0
               /\ \A n \in Names : fs[n] = call.fs0[n]

\* C8 witness: a batch in which every rename failed although a new name of
\* the batch exists in the folder
C8_Witness ==
    /\ call.op = "apply"
    /\ call.success_count = 0
    /\ \E i \in 1..Len(call.changes) : Exists(fs, call.changes[i].new)
    /\ operations = call.operations0

\* the changes before change i that were carried out and had name n as their
\* old or as their new name
Touching(c, i, n) ==
    { j \in 1..(i-1) : /\ c.outcome[j] = "ok"
                       /\ (c.changes[j].old = n \/ c.changes[j].new = n) }

\* name n holds a file when the turn of change i comes: the last earlier
\* change that touched it moved a file there, or none touched it and the
\* file was there before the batch
Occupied(c, i, n) ==
    LET T == Touching(c, i, n)
    IN  IF T = {}
        THEN c.fs0[n] # 0
        ELSE c.changes[CHOOSE m \in T : \A j \in T : j <= m].new = n

\* the new name of change i is taken when its turn comes
Collides(c, i) == Occupied(c, i, c.changes[i].new)

\* change k can be carried out: its new name is valid and free, its file is
\* there and the OS lets it move
Clean(c, k) ==
    /\ validate_file_name(c.changes[k].new)
    /\ Occupied(c, k, c.changes[k].old)
    /\ c.changes[k].old \notin locked
    /\ ~Occupied(c, k, c.changes[k].new)

\* no later change of the batch moves the file of change k on or puts a file
\* under its old name
Undisturbed(c, k) ==
    \A j \in (k+1)..Len(c.changes) :
        /\ c.changes[j].old # c.changes[k].new
        /\ c.changes[j].new # c.changes[k].old

\* change k was carried out: it is counted as renamed, and unless a later
\* change touched its names a file is under the new name and the old name is
\* free; the file is the one the old name held before the batch when no
\* earlier change touched the old name
CarriedOut(c, k) ==
    /\ c.outcome[k] = "ok"
    /\ Undisturbed(c, k)
         => /\ fs[c.changes[k].new] # 0
            /\ fs[c.changes[k].old] = 0
            /\ Touching(c, k, c.changes[k].old) = {}
                 => fs[c.changes[k].new] = c.fs0[c.changes[k].old]

\* C9: a change whose valid new name is taken is counted as failed and its
\* file keeps its old name, no file of the folder is overwritten, and the
\* changes after it are still carried out.
C9_CollisionIsPerItem ==
    call.op = "apply"
    => /\ Len(call.outcome) = Len(call.changes)
       /\ call.success_count + call.error_count = Len(call.changes)
       /\ \A i \in 1..Len(call.changes) :
            (validate_file_name(call.changes[i].new) /\ Collides(call, i))
            => /\ call.outcome[i] = "exists"
               /\ call.error_count >= 1
               /\ call.fs0[call.changes[i].old] # 0
                    => fs[call.changes[i].old] = call.fs0[call.changes[i].old]
               /\ \A k \in (i+1)..Len(call.changes) :
                    Clean(call, k) => CarriedOut(call, k)
       /\ \A c \in 1..(MaxContent + 1) :
            Cardinality({ n \in Names : fs[n] = c })
              = Cardinality({ n \in Names : call.fs0[n] = c })

\* C9 witness: a batch whose first change collided and whose second change
\* was carried out
C9_Witness ==
    /\ call.op = "apply"
    /\ Len(call.changes) = 2
    /\ Collides(call, 1)
    /\ call.outcome = <<"exists", "ok">>
    /\ Clean(call, 2)

\* C10: when create_backup fails it returns None without raising, and
\* apply_changes still carries out every change of the batch that can be.
C10_BackupFailureNonFatal ==
    (call.op = "apply" /\ call.keep_original /\ call.backup_path = <<>>)
    => /\ ~call.raised
       /\ \A k \in 1..Len(call.changes) : Clean(call, k) => CarriedOut(call, k)

\* C10 witness: a batch renamed although its backup could not be made
C10_Witness ==
    /\ call.op = "apply"
    /\ call.keep_original
    /\ call.backup_path = <<>>
    /\ call.success_count >= 1
    /\ \E k \in 1..Len(call.changes) : Clean(call, k)


---------------------------------------------------------------------------
(* Properties of the preview and of the rules engine *)

IsProgress(e) == e.sig = "progress_updated"

IsResult(e) == e.sig = "preview_finished"

\* the position (from 0) of name f in the list files
IndexOf(files, f) == (CHOOSE i \in 1..Len(files) : files[i] = f) - 1

\* the file goes through the EXIF branch of run when it is found to exist
ExifFile(f, rules) ==
    rules.enable_exif /\ Lower(SplitExt(f)[2]) \in image_extensions

\* name is a name run can store for file f of the list files under rules:
\* the name of the rules engine, or for a file of the EXIF branch the name
\* made from it with the EXIF data the file can hold
IsRunName(name, files, rules, f) ==
    LET g == generate_new_name(f, IndexOf(files, f), rules)
    IN  /\ ~g.raised
        /\ \/ name = g.name
           \/ /\ ExifFile(f, rules)
              /\ \/ name = run_exif_name(g.name, rules, NoExifData)
                 \/ name = run_exif_name(g.name, rules, PhotoExifData)

\* C11: a worker emits nothing (no progress, no result, no error) once
\* stop() has set its flag.
C11_NoEmissionAfterStop ==
    \A w \in 1..Len(emitted) :
        \A k \in 1..Len(emitted[w]) : ~emitted[w][k].after_stop

\* C12: at no time are two workers running, leaving aside a worker that
\* stop() has terminated after its wait ran out.
C12_OneRunInFlight ==
    Cardinality({ w \in Running : ~workers[w].terminated }) <= 1

\* C13: the progress values a run has reported never decrease, lie in
\* 0..100, and there is one report per file in the order of the list: the
\* reports made so far are those of the files done so far, plus the file in
\* work once its report is out.
C13_ProgressMonotone ==
    \A w \in Running :
        LET ps == SelectSeq(emitted[w], IsProgress)
        IN  /\ \A k \in 1..Len(ps) : ps[k].value \in 0..100
            /\ \A k \in 2..Len(ps) : ps[k - 1].value <= ps[k].value
            /\ Len(ps) = workers[w].i + (IF workers[w].pc \in {"body", "except", "emit_error"} THEN 1 ELSE 0)
                 \/ workers[w].pc = "return"
            /\ Len(ps) <= Len(workers[w].files)
            /\ (Len(ps) = Len(workers[w].files) /\ Len(ps) > 0) => ps[Len(ps)].value = 100

\* C13 witness: a run that has reported two different progress values
C13_Witness ==
    \E w \in Running :
        LET ps == SelectSeq(emitted[w], IsProgress)
        IN  Len(ps) >= 2 /\ ps[1].value < ps[2].value

\* the loop of run has just stored the entry of the file at position i
JustStored(w) == workers[w].pc = "check" /\ workers[w].i >= 1

\* C14: every name a run stores is a name of the file list and the rules it
\* was started with, and the map it delivers holds the names it stored for
\* the files of that list, whatever the widgets and the file list of the
\* window have become while it ran.
C14_CopyOnStart ==
    \A w \in Running :
        /\ JustStored(w) =>
               LET f == workers[w].files[workers[w].i]
               IN  /\ f \in DOMAIN workers[w].results
                   /\ IsRunName(workers[w].results[f],
                                workers[w].files, workers[w].rules, f)
        /\ DOMAIN workers[w].results \subseteq Range(workers[w].files)
        /\ \A k \in 1..Len(emitted[w]) :
               IsResult(emitted[w][k]) =>
                   /\ DOMAIN emitted[w][k].value = Range(workers[w].files)
                   /\ emitted[w][k].value = workers[w].results

\* C14 witness: a run has delivered its names after load_files gave the
\* window another file list, with which these names are not possible
C14_Witness ==
    \E w \in Running :
        /\ current_files # workers[w].files
        /\ Range(current_files) = Range(workers[w].files)
        /\ \E k \in 1..Len(emitted[w]) :
               /\ IsResult(emitted[w][k])
               /\ \E f \in Range(current_files) :
                      ~IsRunName(emitted[w][k].value[f],
                                 current_files, collect_rules(ui), f)

HasPrefix(s, p) == Len(p) <= Len(s) /\ SubSeq(s, 1, Len(p)) = p

\* the name after each step of the fixed order, from the steps themselves
InOrder(file_name, index, rules) ==
    LET spaces == IF rules.remove_spaces THEN RemoveSpaces(file_name) ELSE file_name
        replaced == apply_regex(apply_text_replace(spaces, rules).name, rules)
        affixed == apply_prefix_suffix(replaced, rules)
        numbered == apply_numbering(affixed, index, rules)
    IN  IF rules.lowercase_ext THEN LowercaseExt(numbered) ELSE numbered

\* C15: the name generate_new_name returns is the one obtained by removing
\* the spaces, then replacing text, then adding prefix and suffix, then
\* numbering, then lowering the extension, each step on the result of the
\* one before.  So the number put in front stands before the configured
\* prefix, the spaces of the prefix stay although spaces are removed, and
\* the extension of the returned name is in lower case when that is asked.
C15_FixedOrder ==
    (engine.op = "generate_new_name" /\ ~engine.raised) =>
        LET rules == engine.rules
            number == ZFill(Str(rules.start_number + engine.index), rules.digits_count)
        IN  /\ engine.name = InOrder(engine.file_name, engine.index, rules)
            /\ (rules.enable_numbering /\ rules.number_position = "prefix"
                  /\ rules.enable_prefix_suffix) =>
                   HasPrefix(engine.name, number \o rules.number_separator \o rules.prefix)
            /\ (rules.remove_spaces /\ rules.enable_prefix_suffix
                  /\ " " \in Range(rules.prefix)) => " " \in Range(engine.name)
            /\ (rules.remove_spaces /\ ~rules.enable_prefix_suffix /\ ~rules.enable_replace)
                   => " " \notin Range(engine.name)
            /\ rules.lowercase_ext => LowercaseExt(engine.name) = engine.name

\* C15 witness: a name with a space and an upper-case extension went through
\* all five steps
C15_Witness ==
    /\ engine.op = "generate_new_name"
    /\ ~engine.raised
    /\ engine.rules.remove_spaces
    /\ engine.rules.enable_replace
    /\ engine.rules.enable_prefix_suffix
    /\ engine.rules.enable_numbering
    /\ engine.rules.number_position = "prefix"
    /\ engine.rules.lowercase_ext
    /\ " " \in Range(engine.file_name)
    /\ " " \in Range(engine.name)
    /\ LowercaseExt(engine.file_name) # engine.file_name
    /\ engine.name # apply_numbering(engine.file_name, engine.index, engine.rules)

\* C16: for rules collected in regular-expression mode the name returned is
\* the one the regex substitution alone gives: the pattern text is not also
\* replaced as a literal substring.
C16_OneKindOfSubstitution ==
    (engine.op = "generate_new_name" /\ ~engine.raised /\ engine.rules.enable_regex) =>
        engine.name = InOrder(engine.file_name, engine.index,
                              [engine.rules EXCEPT !.enable_replace = FALSE])

\* C17: generate_new_name returns a name for every file name, index and
\* rules; it never raises.
C17_NeverRaises ==
    engine.op = "generate_new_name" => ~engine.raised

\* rules in which only the lowering of the extension is switched on
OnlyLowercaseExt(rules) ==
    /\ rules.lowercase_ext
    /\ ~rules.remove_spaces
    /\ ~rules.enable_replace
    /\ ~rules.enable_regex
    /\ ~rules.enable_prefix_suffix
    /\ ~rules.enable_numbering

\* C18: with only the lowering of the extension switched on, generating a
\* name from a generated name with the same index and rules gives it back.
C18_LowercaseIdempotent ==
    (engine.op = "again" /\ OnlyLowercaseExt(engine.rules)) =>
        /\ ~engine.raised
        /\ engine.again = engine.name

\* C18 witness: the second call was made on a name the first call changed
C18_Witness ==
    /\ engine.op = "again"
    /\ OnlyLowercaseExt(engine.rules)
    /\ engine.name # engine.file_name

\* C19: in batch_process and in the loop of the worker the name stored for
\* the file at position i of the list is generate_new_name(file, i, rules),
\* in every run and whatever the other files of the list are.
C19_NameByPosition ==
    /\ (engine.op = "batch_process" /\ ~engine.raised) =>
           \A k \in 1..Len(engine.files) :
               /\ engine.files[k] \in DOMAIN engine.result
               /\ engine.result[engine.files[k]] =
                      generate_new_name(engine.files[k], k - 1, engine.rules).name
    /\ \A w \in Running :
           \A k \in 1..workers[w].i :
               /\ workers[w].files[k] \in DOMAIN workers[w].results
               /\ workers[w].results[workers[w].files[k]] =
                      generate_new_name(workers[w].files[k], k - 1, workers[w].rules).name

\* C19 as amended: the same for batch_process, and in the loop of the worker
\* for every file that does not go through the EXIF branch; for an image
\* with EXIF switched on the name stored is generate_new_name(file, i,
\* rules) or the EXIF name made from it.  In both cases nothing else than
\* the file, its position, the rules and the file on disk enters the name.
\* The worker is looked at when it has stored a name.
C19_NameByPositionOrExif ==
    /\ (engine.op = "batch_process" /\ ~engine.raised) =>
           \A k \in 1..Len(engine.files) :
               /\ engine.files[k] \in DOMAIN engine.result
               /\ engine.result[engine.files[k]] =
                      generate_new_name(engine.files[k], k - 1, engine.rules).name
    /\ \A w \in Running :
           JustStored(w) =>
               LET k == workers[w].i
                   f == workers[w].files[k]
                   g == generate_new_name(f, k - 1, workers[w].rules).name
               IN  /\ f \in DOMAIN workers[w].results
                   /\ \/ workers[w].results[f] = g
                      \/ /\ ExifFile(f, workers[w].rules)
                         /\ \E exif \in ExifInputs :
                                workers[w].results[f] = run_exif_name(g, workers[w].rules, exif)

\* C19 witness: batch_process has named two files, and a second worker of
\* the window has named the files at both positions, one of them through
\* the EXIF branch
C19_Witness ==
    /\ engine.op = "batch_process"
    /\ ~engine.raised
    /\ Len(engine.files) >= 2
    /\ \E w \in Running :
           /\ w >= 2
           /\ workers[w].i >= 2
           /\ \E k \in 1..2 :
                  LET f == workers[w].files[k]
                  IN  /\ ExifFile(f, workers[w].rules)
                      /\ workers[w].results[f] #
                             generate_new_name(f, k - 1, workers[w].rules).name

\* C20: every map of names delivered, by batch_process or by the
\* preview_finished signal of a worker, stopped or not, has exactly the
\* names of the input list as its keys.
C20_OneEntryPerFile ==
    /\ (engine.op = "batch_process" /\ ~engine.raised) =>
           DOMAIN engine.result = Range(engine.files)
    /\ \A w \in Running :
           \A k \in 1..Len(emitted[w]) :
               IsResult(emitted[w][k]) =>
                   DOMAIN emitted[w][k].value = Range(workers[w].files)
    /\ \A k \in 1..Len(queue) :
           IsResult(queue[k]) =>
               \E files \in PreviewLists : DOMAIN queue[k].value = Range(files)

\* C20 witness: a worker delivered its map after stop() was called on it,
\* and batch_process returned a map for two files
C20_Witness ==
    /\ engine.op = "batch_process"
    /\ ~engine.raised
    /\ Len(engine.files) >= 2
    /\ \E w \in Running :
           \E k \in 1..Len(emitted[w]) :
               IsResult(emitted[w][k]) /\ emitted[w][k].after_stop

---------------------------------------------------------------------------
(* Properties of the EXIF processor *)

\* the last call was generate_filename_from_exif on a file that holds tags
NamedFromTags ==
    exif_call.op = "generate_filename_from_exif" /\ DOMAIN exif_call.exif_data # {}

\* s holds a placeholder token: a name of letters between braces
HasToken(s) ==
    \E i \in 1..Len(s), j \in 1..Len(s) :
        /\ i + 1 < j
        /\ s[i] = "{"
        /\ s[j] = "}"
        /\ \A k \in (i + 1)..(j - 1) : s[k] \in Range(LowerLetters) \cup Range(UpperLetters)

\* C21: for a file whose tag map is not empty, the name returned by
\* generate_filename_from_exif holds no placeholder token, whatever the
\* template: tokens without a value and tokens that name no placeholder are
\* deleted, and the substitutions and deletions leave or form none.
C21_TemplateCleanup == NamedFromTags => ~HasToken(exif_call.name)

Separators == {"_", "-"}

\* C22: the name generate_filename_from_exif returns is the original name,
\* or its stem (the name without the extension put back) neither starts nor
\* ends with '_' or '-' and holds no separator twice in a row; a template
\* resolved to separators only gives the original name.
C22_SeparatorsCollapsed ==
    NamedFromTags =>
        LET ext == SplitExt(exif_call.file_name)[2]
            stem == SubSeq(exif_call.name, 1, Len(exif_call.name) - Len(ext))
        IN  \/ exif_call.name = exif_call.file_name
            \/ /\ stem # <<>>
               /\ Range(stem) \ Separators # {}
               /\ stem[1] \notin Separators
               /\ stem[Len(stem)] \notin Separators
               /\ \A k \in 2..Len(stem) :
                      ~(stem[k] \in Separators /\ stem[k - 1] = stem[k])

\* C23: validate_template rejects the empty template, every template with
\* '{' in which the numbers of '{' and '}' differ (with or without a
\* placeholder in it), and every template with '{' and no placeholder; it
\* accepts every other template.
C23_ValidateTemplate ==
    exif_call.op = "validate_template" =>
        LET t == exif_call.template
            rejected ==
                \/ t = <<>>
                \/ "{" \in Range(t) /\ CountChar(t, "{") # CountChar(t, "}")
                \/ /\ "{" \in Range(t)
                   /\ \A k \in 1..Len(PLACEHOLDERS) : ~Contains(t, PLACEHOLDERS[k])
        IN  exif_call.valid = ~rejected

---------------------------------------------------------------------------
(* Properties of the persisted history *)

---------------------------------------------------------------------------
(* Properties of the loop of the worker and of the handlers of the window *)

\* C25: the name the worker stores for a file is the name of the rules
\* engine, unless EXIF is switched on, the extension of the file is one of
\* the image extensions and the file was found on disk; then, and only
\* then, it is the name the EXIF formatter and the options of the EXIF
\* group make from it.  The worker is looked at when it has stored a name.
C25_ExifGating ==
    \A w \in Running :
        JustStored(w) =>
            LET f == workers[w].files[workers[w].i]
                rules == workers[w].rules
                g == generate_new_name(f, workers[w].i - 1, rules).name
            IN  /\ workers[w].exists # "not asked" <=> ExifFile(f, rules)
                /\ IF ExifFile(f, rules) /\ workers[w].exists = "yes"
                   THEN \E exif \in ExifInputs :
                            workers[w].results[f] = run_exif_name(g, rules, exif)
                   ELSE workers[w].results[f] = g

\* C25 witness: with EXIF switched on a worker has stored the name of an
\* image it found on disk, and the name is not the one of the rules engine
C25_Witness ==
    \E w \in Running :
        /\ JustStored(w)
        /\ workers[w].exists = "yes"
        /\ LET f == workers[w].files[workers[w].i]
           IN  workers[w].results[f] #
                   generate_new_name(f, workers[w].i - 1, workers[w].rules).name

\* C26: a worker reports the progress of a file only after it has stored
\* the name of that file: it has made at most as many reports as it has
\* stored names.
C26_ProgressAfterFile ==
    \A w \in Running :
        Len(SelectSeq(emitted[w], IsProgress)) <= Cardinality(DOMAIN workers[w].results)

\* the GUI thread takes a signal of the kind sig from the queue
Takes(sig) ==
    /\ gui = "idle"
    /\ queue # <<>>
    /\ Head(queue).sig = sig
    /\ queue' = Tail(queue)

\* C30: the results on_preview_finished stores come from the worker started
\* last and name the files of the list now loaded, and the finished signal
\* of another worker than the one the window refers to leaves that
\* reference alone.
C30_NoStalePreview ==
    [][ /\ Takes("preview_finished") =>
             /\ Head(queue).sender = Len(workers)
             /\ DOMAIN Head(queue).value = Range(current_files)
        /\ (Takes("finished") /\ Head(queue).sender # worker) => worker' = worker
      ]_vars

---------------------------------------------------------------------------
(* Properties of the recorded operation and of its undo *)

\* C27: every pair of the operation apply_changes records is a change of
\* the batch that was renamed: a change that was skipped or failed is not
\* recorded, whatever became of the other changes.
C27_RecordedSucceeded ==
    (call.op = "apply" /\ call.added /\ ~call.raised) =>
        \A i \in 1..Len(call.changes) :
            call.changes[i] \in Range(operations[Len(operations)].changes) =>
                call.outcome[i] = "ok"

\* C28: undo_last_operation destroys no file: the folder holds as many
\* files after it as before it, and every content it held before it holds
\* after, under some name.
C28_UndoKeepsFiles ==
    UndoRan =>
        /\ Cardinality(Present(fs)) = Cardinality(Present(call.fs0))
        /\ \A n \in Present(call.fs0) : \E m \in Present(fs) : fs[m] = call.fs0[n]

---------------------------------------------------------------------------
(* Properties of load_history *)

\* C29: load_history is all or nothing.  When the file is missing, is not
\* JSON or holds a record that cannot be converted, it returns false, raises
\* nothing and leaves the history as it was before the call; otherwise it
\* returns true and the history is the list of all records of the file.
C29_LoadAllOrNothing ==
    call.op = "load" =>
        LET data == history_file.data
            fails == \/ ~history_file.exists
                     \/ ~history_file.json
                     \/ \E i \in 1..Len(data) : ~IsIso(data[i].timestamp)
        IN  /\ ~call.raised
            /\ call.ret = ~fails
            /\ fails => operations = call.operations0
            /\ ~fails => operations = [i \in 1..Len(data) |-> from_dict(data[i])]

\* C29 witness: a load failed on a record that is not the first of the
\* file while the history held an operation
C29_Witness ==
    /\ call.op = "load"
    /\ ~call.ret
    /\ history_file.exists /\ history_file.json
    /\ Len(history_file.data) >= 2
    /\ IsIso(history_file.data[1].timestamp)
    /\ operations # <<>>

====
